---- MODULE Spec2Model ----
(***************************************************************************)
(* claude-switch: a registry of named snapshots of ~/.claude/settings.json. *)
(*                                                                         *)
(* A file's content is a sequence of characters (the metadata document: of *)
(* characters and key tokens).  The file system is a function from the     *)
(* paths that exist to their content.  A                                   *)
(* Manager (internal/config/manager.go) holds the collection in memory and *)
(* mirrors it in the metadata document ~/.claude-switch/config.json.       *)
(***************************************************************************)
EXTENDS Integers, Sequences, FiniteSets, TLC

VARIABLES
    configs,    \* configs[m]: the field Manager.configs of manager m
    fs,         \* the file system: path -> content, for the paths that exist
    clock,      \* number of identities generated so far (uuid.New, time.Now)
    dirs,       \* the storage directories that exist
    ret,        \* the last call: operation, returned error, record concerned
    writing,    \* writing[m]: what m, inside os.WriteFile of config.json, has
                \* still to write after it has opened the file
    cmds        \* cmds[p]: where the command run by process p waits (in the
                \* editor or at a prompt) and what it holds there: the
                \* Manager it created, its arguments, what it has read

vars == <<configs, fs, clock, dirs, ret, writing, cmds>>

\* the processes that run commands, and a process that runs none
Procs == {"p1", "p2"}
Idle == [at |-> "idle"]

\* no os.WriteFile of config.json is under way
NotWriting == [open |-> FALSE, data |-> <<>>]

----------------------------------------------------------------------------
(* Bounds of the model.                                                    *)

\* identities that AddConfig may generate in one behaviour
MaxAdds == 2
\* a failed os.WriteFile leaves the first 0..MaxCut characters of the data
MaxCut == 0
\* identities generated in a run of the list specification
MaxListed == 3
\* every text of up to MaxText characters is given to the validator
MaxText == 4

----------------------------------------------------------------------------
(* Paths.                                                                  *)

\* filepath.Join(homeDir, ".claude", "settings.json")
GetClaudeSettingsPath == <<"s">>
\* backupPath := settingsPath + ".backup"
BackupPath == GetClaudeSettingsPath \o <<".", "b">>
\* filepath.Join(m.configDir, "config.json")
MetadataPath == <<"m">>
\* filepath.Join(m.configDir, "configs", id+".json")
FilePath(id) == <<"c", "/">> \o id \o <<".", "j">>
\* ~/.claude-switch and ~/.claude-switch/configs
configDir == <<"d">>
configsDir == <<"c">>
StorageDirs == {configDir, configsDir}
\* ~/.claude, which the apply command looks for
claudeDir == <<"h">>

\* the caller's temporary file handed to AddConfig
TempPath == <<"t">>

\* uuid.New().String(): the n-th identity generated
UuidChars == <<"1", "2", "3", "4", "5", "6", "7", "8", "9">>
Uuid(n) == <<UuidChars[n]>>
NoId == <<>>

----------------------------------------------------------------------------
(* os: ReadFile, WriteFile, Remove, Stat.  Every call takes the fault the  *)
(* environment injects into it: "ok", "deny" (the call fails and changes   *)
(* nothing) or, for a write, "cut" (the file is truncated and the write    *)
(* stops after `at` characters).                                           *)

NoFault == [kind |-> "ok", at |-> 0]
Deny == [kind |-> "deny", at |-> 0]
ReadFaults == {NoFault, Deny}
WriteFaults == {NoFault, Deny} \cup [kind : {"cut"}, at : 0..MaxCut]

Min(a, b) == IF a < b THEN a ELSE b

Put(f, p, data) == [q \in DOMAIN f \cup {p} |-> IF q = p THEN data ELSE f[q]]
Del(f, p) == [q \in DOMAIN f \ {p} |-> f[q]]

\* os.Stat(p) returns no error
Stat(f, p) == p \in DOMAIN f

\* os.ReadFile(p): err is "nil", "notexist" (os.IsNotExist) or "denied"
ReadFile(f, p, flt) ==
    IF p \notin DOMAIN f THEN [err |-> "notexist", data |-> <<>>]
    ELSE IF flt.kind # "ok" THEN [err |-> "denied", data |-> <<>>]
    ELSE [err |-> "nil", data |-> f[p]]

\* os.WriteFile(p, data, 0644): open with O_TRUNC, write, close.  It is not
\* atomic: a write that fails after the open leaves a prefix of data.
WriteFile(f, p, data, flt) ==
    IF flt.kind = "ok" THEN [err |-> "nil", fs |-> Put(f, p, data)]
    ELSE IF flt.kind = "deny" \/ Len(data) = 0 THEN [err |-> "denied", fs |-> f]
    ELSE [err |-> "short",
          fs |-> Put(f, p, SubSeq(data, 1, Min(flt.at, Len(data) - 1)))]

\* the directories above p that may be missing: ~/.claude-switch is above
\* ~/.claude-switch/configs; the home directory, above the others, is there
ParentDirs(p) == IF p = configsDir THEN {configDir} ELSE {}

\* os.MkdirAll(p, 0755) with the directories d existing: no error when p is
\* a directory already; otherwise the missing parents are made, then p. A
\* failing call fails at the first directory it has to make.
MkdirAll(d, p, flt) ==
    IF p \in d THEN [err |-> "nil", dirs |-> d]
    ELSE IF flt.kind # "ok" THEN [err |-> "denied", dirs |-> d]
    ELSE [err |-> "nil", dirs |-> d \cup ParentDirs(p) \cup {p}]

\* os.Remove(p)
RemoveStrict(f, p, flt) ==
    IF p \notin DOMAIN f \/ flt.kind # "ok" THEN [err |-> "denied", fs |-> f]
    ELSE [err |-> "nil", fs |-> Del(f, p)]
RemoveKeepsFile(f, p, flt) ==
    IF p \notin DOMAIN f THEN [err |-> "notexist", fs |-> f]
    ELSE IF flt.kind # "ok" THEN [err |-> "denied", fs |-> f]
    ELSE [err |-> "nil", fs |-> f]
Remove(f, p, flt) ==
    IF p \notin DOMAIN f THEN [err |-> "notexist", fs |-> f]
    ELSE IF flt.kind # "ok" THEN [err |-> "denied", fs |-> f]
    ELSE [err |-> "nil", fs |-> Del(f, p)]

----------------------------------------------------------------------------
(* encoding/json: the grammar json.Unmarshal accepts, over the characters  *)
(* the model uses: space, the six structural characters, the double quote, *)
(* digits and letters.  (No backslash, sign, fraction or exponent occurs   *)
(* in the model's contents.)  A parser returns the index after what it     *)
(* read, or 0 when the text does not parse.                                *)

DigitChars == {"0", "1", "2", "3", "4", "5", "6", "7", "8", "9"}

\* the character at index i, "" past the end
At(s, i) == IF i >= 1 /\ i <= Len(s) THEN s[i] ELSE ""

RECURSIVE SkipWS(_, _)
SkipWS(s, i) == IF At(s, i) = " " THEN SkipWS(s, i + 1) ELSE i

\* s[i..] starts with the literal lit
Literal(s, i, lit) ==
    IF \A k \in 1..Len(lit) : At(s, i + k - 1) = lit[k] THEN i + Len(lit) ELSE 0

\* after the opening quote: up to and including the closing quote
RECURSIVE ParseString(_, _)
ParseString(s, i) ==
    IF i > Len(s) THEN 0
    ELSE IF s[i] = "\"" THEN i + 1
    ELSE ParseString(s, i + 1)

RECURSIVE ParseDigits(_, _)
ParseDigits(s, i) == IF At(s, i) \in DigitChars THEN ParseDigits(s, i + 1) ELSE i

\* 0 | [1-9][0-9]*
ParseNumberLeadingZeros(s, i) == ParseDigits(s, i + 1)
ParseNumber(s, i) == IF s[i] = "0" THEN i + 1 ELSE ParseDigits(s, i + 1)

RECURSIVE ParseValue(_, _)
RECURSIVE ParseMembers(_, _)
RECURSIVE ParseElements(_, _)

ParseValue(s, i) ==
    LET c == At(s, i) IN
    IF c = "{" THEN
        LET j == SkipWS(s, i + 1) IN
        IF At(s, j) = "}" THEN j + 1 ELSE ParseMembers(s, j)
    ELSE IF c = "[" THEN
        LET j == SkipWS(s, i + 1) IN
        IF At(s, j) = "]" THEN j + 1 ELSE ParseElements(s, j)
    ELSE IF c = "\"" THEN ParseString(s, i + 1)
    ELSE IF c \in DigitChars THEN ParseNumber(s, i)
    ELSE IF c = "n" THEN Literal(s, i, <<"n", "u", "l", "l">>)
    ELSE IF c = "t" THEN Literal(s, i, <<"t", "r", "u", "e">>)
    ELSE IF c = "f" THEN Literal(s, i, <<"f", "a", "l", "s", "e">>)
    ELSE 0

\* "key" : value ( , "key" : value )* }
ParseMembers(s, i) ==
    IF At(s, i) # "\"" THEN 0
    ELSE LET k == ParseString(s, i + 1) IN
         IF k = 0 THEN 0
         ELSE LET c == SkipWS(s, k) IN
              IF At(s, c) # ":" THEN 0
              ELSE LET v == ParseValue(s, SkipWS(s, c + 1)) IN
                   IF v = 0 THEN 0
                   ELSE LET w == SkipWS(s, v) IN
                        IF At(s, w) = "," THEN ParseMembers(s, SkipWS(s, w + 1))
                        ELSE IF At(s, w) = "}" THEN w + 1
                        ELSE 0

\* value ( , value )* ]
ParseElements(s, i) ==
    LET v == ParseValue(s, i) IN
    IF v = 0 THEN 0
    ELSE LET w == SkipWS(s, v) IN
         IF At(s, w) = "," THEN ParseElements(s, SkipWS(s, w + 1))
         ELSE IF At(s, w) = "]" THEN w + 1
         ELSE 0

\* json.Unmarshal(data, &v) returns no syntax error
ValidJSON(data) ==
    LET j == ParseValue(data, SkipWS(data, 1)) IN
    j # 0 /\ SkipWS(data, j) = Len(data) + 1

\* the first character of the top-level value
TopChar(data) == At(data, SkipWS(data, 1))

----------------------------------------------------------------------------
(* internal/validation                                                     *)

\* ValidateJSON: "nil" or "InvalidJSON"
ValidateJSON(data) == IF ValidJSON(data) THEN "nil" ELSE "InvalidJSON"

\* ValidateClaudeSettings: "nil", "InvalidJSON" or "NotAnObject".  Unmarshal
\* into map[string]interface{} fails on an array or a scalar and yields the
\* nil map on null.
ValidateClaudeSettingsNoNilCheck(data) ==
    IF ValidateJSON(data) # "nil" THEN "InvalidJSON"
    ELSE IF TopChar(data) \notin {"{", "n"} THEN "NotAnObject"
    ELSE "nil"
ValidateClaudeSettings(data) ==
    IF ValidateJSON(data) # "nil" THEN "InvalidJSON"
    ELSE IF TopChar(data) \notin {"{", "n"} THEN "NotAnObject"
    ELSE IF TopChar(data) = "n" THEN "NotAnObject"
    ELSE "nil"

\* ValidateClaudeSettingsFile: also "ReadFailed"
ValidateClaudeSettingsFile(f, p, flt) ==
    LET r == ReadFile(f, p, flt) IN
    IF r.err # "nil" THEN "ReadFailed" ELSE ValidateClaudeSettings(r.data)

----------------------------------------------------------------------------
(* The metadata document: json.MarshalIndent(m.configs) and json.Unmarshal *)
(* into []Config.  A key with its colon is one token; the indentation is   *)
(* left out.  CreatedAt is the tick of the clock at which the record was   *)
(* made.                                                                   *)

ConfigWithoutDescription(id, name, description, created_at) ==
    [id |-> id, name |-> name, description |-> <<>>,
     created_at |-> created_at, file_path |-> FilePath(id)]
Config(id, name, description, created_at) ==
    [id |-> id, name |-> name, description |-> description,
     created_at |-> created_at, file_path |-> FilePath(id)]

\* a byte that is not valid UTF-8, and U+FFFD, which json.Marshal writes for it
InvalidByte == "xFF"
ReplacementChar == "uFFFD"

\* a string value: "String values encode as JSON strings coerced to valid
\* UTF-8, replacing invalid bytes with the Unicode replacement rune"
MarshalString(v) ==
    <<"\"">>
    \o [i \in 1..Len(v) |-> IF v[i] = InvalidByte THEN ReplacementChar ELSE v[i]]
    \o <<"\"">>
FormatTime(t) == <<UuidChars[t]>>

MarshalConfig(c) ==
    <<"{", "id:">> \o MarshalString(c.id)
    \o <<",", "name:">> \o MarshalString(c.name)
    \o <<",", "description:">> \o MarshalString(c.description)
    \o <<",", "created_at:">> \o MarshalString(FormatTime(c.created_at))
    \o <<",", "file_path:">> \o MarshalString(c.file_path)
    \o <<"}">>

RECURSIVE MarshalFrom(_, _)
MarshalFrom(cfgs, i) ==
    IF i > Len(cfgs) THEN <<"]">>
    ELSE (IF i > 1 THEN <<",">> ELSE <<>>) \o MarshalConfig(cfgs[i])
         \o MarshalFrom(cfgs, i + 1)

\* json.MarshalIndent(m.configs, "", "  "); the empty collection is "[]"
Marshal(cfgs) == <<"[">> \o MarshalFrom(cfgs, 1)

\* key token, then a quoted string: [next, val], next = 0 when it is not there
ParseField(s, i, key) ==
    IF At(s, i) # key \/ At(s, i + 1) # "\"" THEN [next |-> 0, val |-> <<>>]
    ELSE LET k == ParseString(s, i + 2) IN
         IF k = 0 THEN [next |-> 0, val |-> <<>>]
         ELSE [next |-> k, val |-> SubSeq(s, i + 2, k - 2)]

\* time.Time.UnmarshalJSON: the tick whose format is v, 0 when there is none
ParseTime(v) ==
    IF \E t \in 1..Len(UuidChars) : FormatTime(t) = v
    THEN CHOOSE t \in 1..Len(UuidChars) : FormatTime(t) = v
    ELSE 0

NoConfig == Config(NoId, <<>>, <<>>, 0)

\* one object of the array: [next, cfg]
ParseConfig(s, i) ==
    LET bad == [next |-> 0, cfg |-> NoConfig]
        a == ParseField(s, i + 1, "id:")
        b == ParseField(s, a.next + 1, "name:")
        c == ParseField(s, b.next + 1, "description:")
        d == ParseField(s, c.next + 1, "created_at:")
        e == ParseField(s, d.next + 1, "file_path:")
    IN  IF At(s, i) # "{" \/ a.next = 0 THEN bad
        ELSE IF At(s, a.next) # "," \/ b.next = 0 THEN bad
        ELSE IF At(s, b.next) # "," \/ c.next = 0 THEN bad
        ELSE IF At(s, c.next) # "," \/ d.next = 0 \/ ParseTime(d.val) = 0 THEN bad
        ELSE IF At(s, d.next) # "," \/ e.next = 0 THEN bad
        ELSE IF At(s, e.next) # "}" THEN bad
        ELSE [next |-> e.next + 1,
              cfg |-> [id |-> a.val, name |-> b.val, description |-> c.val,
                       created_at |-> ParseTime(d.val), file_path |-> e.val]]

RECURSIVE ParseConfigs(_, _, _)
ParseConfigs(s, i, acc) ==
    LET r == ParseConfig(s, i) IN
    IF r.next = 0 THEN [ok |-> FALSE, configs |-> <<>>]
    ELSE IF At(s, r.next) = "," THEN ParseConfigs(s, r.next + 1, Append(acc, r.cfg))
    ELSE IF At(s, r.next) = "]" /\ r.next = Len(s)
         THEN [ok |-> TRUE, configs |-> Append(acc, r.cfg)]
    ELSE [ok |-> FALSE, configs |-> <<>>]

\* json.Unmarshal(data, &m.configs): [ok, configs]
Unmarshal(data) ==
    IF At(data, 1) # "[" THEN [ok |-> FALSE, configs |-> <<>>]
    ELSE IF At(data, 2) = "]" THEN [ok |-> Len(data) = 2, configs |-> <<>>]
    ELSE ParseConfigs(data, 2, <<>>)

----------------------------------------------------------------------------
(* internal/config: the Manager.  Every operation is a function of the     *)
(* collection, the file system, its arguments and the faults injected into *)
(* its I/O calls, in the order of the calls.                               *)

\* copyFile(src, dst): os.ReadFile, then os.WriteFile
copyFileMoves(f, src, dst, rflt, wflt) ==
    LET r == ReadFile(f, src, rflt) IN
    IF r.err # "nil" THEN [err |-> "read", fs |-> f]
    ELSE LET w == WriteFile(f, dst, r.data, wflt) IN
         IF w.err # "nil" THEN [err |-> "write", fs |-> w.fs]
         ELSE [err |-> "nil", fs |-> Del(w.fs, src)]
copyFileWriteUnchecked(f, src, dst, rflt, wflt) ==
    LET r == ReadFile(f, src, rflt) IN
    IF r.err # "nil" THEN [err |-> "read", fs |-> f]
    ELSE [err |-> "nil", fs |-> WriteFile(f, dst, r.data, wflt).fs]
copyFile(f, src, dst, rflt, wflt) ==
    LET r == ReadFile(f, src, rflt) IN
    IF r.err # "nil" THEN [err |-> "read", fs |-> f]
    ELSE LET w == WriteFile(f, dst, r.data, wflt) IN
         IF w.err # "nil" THEN [err |-> "write", fs |-> w.fs]
         ELSE [err |-> "nil", fs |-> w.fs]

\* Manager.saveConfigs: marshal, then os.WriteFile on the metadata path
saveConfigs(f, cfgs, wflt) == WriteFile(f, MetadataPath, Marshal(cfgs), wflt)

\* a parse failure taken for an empty document
loadConfigsLenient(f, rflt) ==
    LET r == ReadFile(f, MetadataPath, rflt) IN
    IF r.err = "notexist" THEN [err |-> "nil", configs |-> <<>>]
    ELSE IF r.err # "nil" THEN [err |-> "ReadFailed", configs |-> <<>>]
    ELSE [err |-> "nil", configs |-> Unmarshal(r.data).configs]

\* Manager.loadConfigs: [err, configs]
loadConfigs(f, rflt) ==
    LET r == ReadFile(f, MetadataPath, rflt) IN
    IF r.err = "notexist" THEN [err |-> "nil", configs |-> <<>>]
    ELSE IF r.err # "nil" THEN [err |-> "ReadFailed", configs |-> <<>>]
    ELSE LET u == Unmarshal(r.data) IN
         IF ~u.ok THEN [err |-> "CorruptMetadata", configs |-> <<>>]
         ELSE [err |-> "nil", configs |-> u.configs]

\* config.NewManager(): the two directories, then loadConfigs; no Manager is
\* returned (open is FALSE) when a step fails
NewManagerFrom(d, f, flt) ==
    LET a == MkdirAll(d, configDir, flt.d1)
        b == MkdirAll(a.dirs, configsDir, flt.d2)
        l == loadConfigs(f, flt.rd)
    IN  IF a.err # "nil"
        THEN [err |-> "MkdirFailed", open |-> FALSE, configs |-> <<>>, dirs |-> a.dirs]
        ELSE IF b.err # "nil"
        THEN [err |-> "MkdirFailed", open |-> FALSE, configs |-> <<>>, dirs |-> b.dirs]
        ELSE [err |-> l.err, open |-> l.err = "nil", configs |-> l.configs,
              dirs |-> b.dirs]

\* Manager.GetConfig: the index of the first record whose ID or Name is the
\* identifier, 0 when there is none ("config not found")
GetConfig(cfgs, identifier) ==
    LET hits == {i \in 1..Len(cfgs) :
                    cfgs[i].id = identifier \/ cfgs[i].name = identifier}
    IN  IF hits = {} THEN 0 ELSE CHOOSE i \in hits : \A j \in hits : i <= j

\* AddConfig, "Check if name already exists"
NameExistsNever(cfgs, name) == FALSE
NameExists(cfgs, name) == \E i \in 1..Len(cfgs) : cfgs[i].name = name

\* Manager.AddConfig(tempFile, name, description)
AddConfig(cfgs, f, clk, tempFile, name, description, flt) ==
    LET fail(e) == [configs |-> cfgs, fs |-> f, clock |-> clk, err |-> e,
                    rec |-> NoConfig]
        v == ValidateClaudeSettingsFile(f, tempFile, flt.vr)
        config == Config(Uuid(clk + 1), name, description, clk + 1)
        cp == copyFile(f, tempFile, config.file_path, flt.cr, flt.cw)
        added == Append(cfgs, config)
        sv == saveConfigs(cp.fs, added, flt.sw)
    IN  IF name = <<>> THEN fail("EmptyName")
        ELSE IF v # "nil" THEN fail(v)
        ELSE IF NameExists(cfgs, name) THEN fail("DuplicateName")
        ELSE IF cp.err # "nil"
             THEN [configs |-> cfgs, fs |-> cp.fs, clock |-> clk + 1,
                   err |-> "CopyFailed", rec |-> NoConfig]
        ELSE IF sv.err # "nil"
             THEN [configs |-> added,
                   fs |-> Remove(sv.fs, config.file_path, flt.rm).fs,
                   clock |-> clk + 1, err |-> "SaveFailed", rec |-> NoConfig]
        ELSE [configs |-> added, fs |-> sv.fs, clock |-> clk + 1, err |-> "nil",
              rec |-> config]

\* ApplyConfig, "Create backup if settings.json exists": the copy's result
BackupStepSkipped(f, flt) == [err |-> "nil", fs |-> f]
BackupStepAlways(f, flt) ==
    IF Stat(f, GetClaudeSettingsPath)
    THEN copyFile(f, GetClaudeSettingsPath, BackupPath, flt.br, flt.bw)
    ELSE [err |-> "nil", fs |-> Put(f, BackupPath, <<>>)]
BackupStepUnchecked(f, flt) ==
    IF Stat(f, GetClaudeSettingsPath)
    THEN [err |-> "nil",
          fs |-> copyFile(f, GetClaudeSettingsPath, BackupPath, flt.br, flt.bw).fs]
    ELSE [err |-> "nil", fs |-> f]
BackupStep(f, flt) ==
    IF Stat(f, GetClaudeSettingsPath)
    THEN copyFile(f, GetClaudeSettingsPath, BackupPath, flt.br, flt.bw)
    ELSE [err |-> "nil", fs |-> f]

\* ApplyConfig, "Try to restore backup on failure": [fs, restore]; the result
\* of the copy is dropped
RestoreStep(f, flt) ==
    IF Stat(f, BackupPath)
    THEN LET rs == copyFile(f, BackupPath, GetClaudeSettingsPath, flt.rr, flt.rw) IN
         [fs |-> rs.fs, restore |-> IF rs.err = "nil" THEN "ok" ELSE "failed"]
    ELSE [fs |-> f, restore |-> "none"]

\* Manager.ApplyConfig(identifier).  had: settings.json existed at the call;
\* restore: what became of the restore of the backup ("none": not tried);
\* reported: the failures the returned error carries.
ApplyConfig(cfgs, f, identifier, flt) ==
    LET i == GetConfig(cfgs, identifier)
        config == cfgs[i]
        had == Stat(f, GetClaudeSettingsPath)
        out(g, e, rs) ==
            [fs |-> g, err |-> e, rec |-> IF i = 0 THEN NoConfig ELSE config,
             restore |-> rs, had |-> had,
             reported |-> IF e = "nil" THEN {} ELSE {e}]
        v == ValidateClaudeSettingsFile(f, config.file_path, flt.vr)
        bk == BackupStep(f, flt)
        cp == copyFile(bk.fs, config.file_path, GetClaudeSettingsPath, flt.tr, flt.tw)
        rs == RestoreStep(cp.fs, flt)
    IN  IF i = 0 THEN out(f, "NotFound", "none")
        ELSE IF v # "nil" THEN out(f, v, "none")
        ELSE IF bk.err # "nil" THEN out(bk.fs, "BackupFailed", "none")
        ELSE IF cp.err # "nil" THEN out(rs.fs, "ApplyFailed", rs.restore)
        ELSE out(cp.fs, "nil", "none")

\* the collection without its first record of identity id
RemoveByIdNever(cfgs, id) == cfgs
RemoveByIdSwap(cfgs, id) ==
    LET hits == {i \in 1..Len(cfgs) : cfgs[i].id = id}
        n == Len(cfgs)
    IN  IF hits = {} THEN cfgs
        ELSE LET i == CHOOSE k \in hits : \A j \in hits : k <= j IN
             IF i = n THEN SubSeq(cfgs, 1, n - 1)
             ELSE [k \in 1..(n - 1) |-> IF k = i THEN cfgs[n] ELSE cfgs[k]]
RemoveById(cfgs, id) ==
    LET hits == {i \in 1..Len(cfgs) : cfgs[i].id = id} IN
    IF hits = {} THEN cfgs
    ELSE LET i == CHOOSE k \in hits : \A j \in hits : k <= j IN
         SubSeq(cfgs, 1, i - 1) \o SubSeq(cfgs, i + 1, Len(cfgs))

\* Manager.RemoveConfig(identifier)
RemoveConfigSplicesFirst(cfgs, f, identifier, flt) ==
    LET i == GetConfig(cfgs, identifier)
        config == cfgs[i]
        rm == Remove(f, config.file_path, flt.rm)
        left == RemoveById(cfgs, config.id)
        sv == saveConfigs(rm.fs, left, flt.sw)
    IN  IF i = 0 THEN [configs |-> cfgs, fs |-> f, err |-> "NotFound", rec |-> NoConfig]
        ELSE IF rm.err \notin {"nil", "notexist"}
             THEN [configs |-> left, fs |-> f, err |-> "RemoveFailed", rec |-> config]
        ELSE IF sv.err # "nil"
             THEN [configs |-> left, fs |-> sv.fs, err |-> "SaveFailed", rec |-> config]
        ELSE [configs |-> left, fs |-> sv.fs, err |-> "nil", rec |-> config]
RemoveConfig(cfgs, f, identifier, flt) ==
    LET i == GetConfig(cfgs, identifier)
        config == cfgs[i]
        rm == Remove(f, config.file_path, flt.rm)
        left == RemoveById(cfgs, config.id)
        sv == saveConfigs(rm.fs, left, flt.sw)
    IN  IF i = 0 THEN [configs |-> cfgs, fs |-> f, err |-> "NotFound", rec |-> NoConfig]
        ELSE IF rm.err \notin {"nil", "notexist"}
             THEN [configs |-> cfgs, fs |-> f, err |-> "RemoveFailed", rec |-> config]
        ELSE IF sv.err # "nil"
             THEN [configs |-> left, fs |-> sv.fs, err |-> "SaveFailed", rec |-> config]
        ELSE [configs |-> left, fs |-> sv.fs, err |-> "nil", rec |-> config]

\* Manager.ValidateConfig(identifier)
ValidateConfig(cfgs, f, identifier, rflt) ==
    LET i == GetConfig(cfgs, identifier) IN
    IF i = 0 THEN "NotFound"
    ELSE ValidateClaudeSettingsFile(f, cfgs[i].file_path, rflt)

\* Manager.ValidateAllConfigs: the failures, in collection order
RECURSIVE ValidateAllFromStop(_, _, _)
ValidateAllFromStop(cfgs, f, i) ==
    IF i > Len(cfgs) THEN <<>>
    ELSE LET v == ValidateClaudeSettingsFile(f, cfgs[i].file_path, NoFault) IN
         IF v # "nil" THEN <<[id |-> cfgs[i].id, name |-> cfgs[i].name, err |-> v]>>
         ELSE ValidateAllFromStop(cfgs, f, i + 1)
RECURSIVE ValidateAllFrom(_, _, _)
ValidateAllFrom(cfgs, f, i) ==
    IF i > Len(cfgs) THEN <<>>
    ELSE LET v == ValidateClaudeSettingsFile(f, cfgs[i].file_path, NoFault) IN
         (IF v # "nil" THEN <<[id |-> cfgs[i].id, name |-> cfgs[i].name, err |-> v]>>
          ELSE <<>>) \o ValidateAllFrom(cfgs, f, i + 1)

ValidateAllConfigs(cfgs, f) == ValidateAllFrom(cfgs, f, 1)

----------------------------------------------------------------------------
(* cmd: the apply and remove commands.  A command is one process: it opens *)
(* its own Manager, reads the flags and, at a prompt, one line of standard *)
(* input.  Its outcome is the error it returns or, when it returns none,   *)
(* what it printed: "DryRun", "Cancelled" or "nil" (done).  called tells   *)
(* whether it called the Manager's ApplyConfig or RemoveConfig.            *)

\* strings.ToLower, on the letters of the answers
LowerChar(c) ==
    IF c = "Y" THEN "y" ELSE IF c = "E" THEN "e" ELSE IF c = "S" THEN "s"
    ELSE IF c = "N" THEN "n" ELSE c
ToLower(v) == [i \in 1..Len(v) |-> LowerChar(v[i])]

\* strings.TrimSpace
RECURSIVE TrimLeft(_)
TrimLeft(v) == IF Len(v) > 0 /\ v[1] = " " THEN TrimLeft(Tail(v)) ELSE v
RECURSIVE TrimRight(_)
TrimRight(v) ==
    IF Len(v) > 0 /\ v[Len(v)] = " " THEN TrimRight(SubSeq(v, 1, Len(v) - 1)) ELSE v
TrimSpace(v) == TrimRight(TrimLeft(v))

\* checkPrerequisites(): ~/.claude is there
checkPrerequisites(d) == IF claudeDir \in d THEN "nil" ELSE "NoClaudeDir"

\* the outcome of a command that ended before it called the Manager
Ended(e, d, f, cfgs, open) ==
    [err |-> e, dirs |-> d, fs |-> f, configs |-> cfgs, open |-> open,
     called |-> FALSE, rec |-> NoConfig]

\* a command that ends after GetConfig found cfg and before the Manager is called
EndedAt(cfg, e, d, f, cfgs) == [Ended(e, d, f, cfgs, TRUE) EXCEPT !.rec = cfg]

\* a command that has called the Manager on cfg and got res back
Called(cfg, res, d, cfgs) ==
    [err |-> res.err, dirs |-> d, fs |-> res.fs, configs |-> cfgs, open |-> TRUE,
     called |-> TRUE, rec |-> cfg]

\* runApply, where nm is what NewManager returns when it is called: flags is [dryRun, confirm,
\* force]; in is what ReadString returns at the prompt, [eof, line]
runApplyWithNoDryRun(d, nm, f, identifier, flags, in, flt) ==
    LET i == GetConfig(nm.configs, identifier)
        cfg == nm.configs[i]
        v == ValidateClaudeSettingsFile(f, cfg.file_path, flt.vr)
        a == ApplyConfig(nm.configs, f, identifier, flt.apply)
    IN  IF checkPrerequisites(d) # "nil" THEN Ended("NoClaudeDir", d, f, <<>>, FALSE)
        ELSE IF ~nm.open THEN Ended(nm.err, nm.dirs, f, <<>>, FALSE)
        ELSE IF i = 0 THEN Ended("NotFound", nm.dirs, f, nm.configs, TRUE)
        ELSE IF flags.confirm /\ ~flags.force /\ in.eof
             THEN EndedAt(cfg, "ReadFailed", nm.dirs, f, nm.configs)
        ELSE IF flags.confirm /\ ~flags.force
                /\ ToLower(TrimSpace(in.line)) # <<"y">>
             THEN EndedAt(cfg, "Cancelled", nm.dirs, f, nm.configs)
        ELSE IF v # "nil" THEN EndedAt(cfg, v, nm.dirs, f, nm.configs)
        ELSE Called(cfg, a, nm.dirs, nm.configs)
runApplyWith(d, nm, f, identifier, flags, in, flt) ==
    LET i == GetConfig(nm.configs, identifier)
        cfg == nm.configs[i]
        v == ValidateClaudeSettingsFile(f, cfg.file_path, flt.vr)
        a == ApplyConfig(nm.configs, f, identifier, flt.apply)
    IN  IF checkPrerequisites(d) # "nil" THEN Ended("NoClaudeDir", d, f, <<>>, FALSE)
        ELSE IF ~nm.open THEN Ended(nm.err, nm.dirs, f, <<>>, FALSE)
        ELSE IF i = 0 THEN Ended("NotFound", nm.dirs, f, nm.configs, TRUE)
        ELSE IF flags.dryRun THEN EndedAt(cfg, "DryRun", nm.dirs, f, nm.configs)
        ELSE IF flags.confirm /\ ~flags.force /\ in.eof
             THEN EndedAt(cfg, "ReadFailed", nm.dirs, f, nm.configs)
        ELSE IF flags.confirm /\ ~flags.force
                /\ ToLower(TrimSpace(in.line)) # <<"y">>
             THEN EndedAt(cfg, "Cancelled", nm.dirs, f, nm.configs)
        ELSE IF v # "nil" THEN EndedAt(cfg, v, nm.dirs, f, nm.configs)
        ELSE Called(cfg, a, nm.dirs, nm.configs)

\* runApply: checkPrerequisites, NewManager, and the rest
runApply(d, f, identifier, flags, in, flt) ==
    runApplyWith(d, NewManagerFrom(d, f, flt.open), f, identifier, flags, in, flt)

\* runRemove after NewManager has returned nm: flags is [dryRun, force]; in1
\* and in2 are what ReadString returns at the first and at the second prompt
runRemoveWithOnePrompt(nm, f, identifier, flags, in1, in2, flt) ==
    LET i == GetConfig(nm.configs, identifier)
        cfg == nm.configs[i]
        answer == ToLower(TrimSpace(in1.line))
        r == RemoveConfig(nm.configs, f, identifier, flt.remove)
    IN  IF ~nm.open THEN Ended(nm.err, nm.dirs, f, <<>>, FALSE)
        ELSE IF i = 0 THEN Ended("NotFound", nm.dirs, f, nm.configs, TRUE)
        ELSE IF flags.dryRun THEN EndedAt(cfg, "DryRun", nm.dirs, f, nm.configs)
        ELSE IF ~flags.force /\ in1.eof
             THEN EndedAt(cfg, "ReadFailed", nm.dirs, f, nm.configs)
        ELSE IF ~flags.force /\ answer # <<"y">> /\ answer # <<"y", "e", "s">>
             THEN EndedAt(cfg, "Cancelled", nm.dirs, f, nm.configs)
        ELSE Called(cfg, r, nm.dirs, r.configs)
runRemoveWith(nm, f, identifier, flags, in1, in2, flt) ==
    LET i == GetConfig(nm.configs, identifier)
        cfg == nm.configs[i]
        answer == ToLower(TrimSpace(in1.line))
        r == RemoveConfig(nm.configs, f, identifier, flt.remove)
    IN  IF ~nm.open THEN Ended(nm.err, nm.dirs, f, <<>>, FALSE)
        ELSE IF i = 0 THEN Ended("NotFound", nm.dirs, f, nm.configs, TRUE)
        ELSE IF flags.dryRun THEN EndedAt(cfg, "DryRun", nm.dirs, f, nm.configs)
        ELSE IF ~flags.force /\ in1.eof
             THEN EndedAt(cfg, "ReadFailed", nm.dirs, f, nm.configs)
        ELSE IF ~flags.force /\ answer # <<"y">> /\ answer # <<"y", "e", "s">>
             THEN EndedAt(cfg, "Cancelled", nm.dirs, f, nm.configs)
        ELSE IF ~flags.force /\ in2.eof
             THEN EndedAt(cfg, "ReadFailed", nm.dirs, f, nm.configs)
        ELSE IF ~flags.force /\ TrimSpace(in2.line) # cfg.name
             THEN EndedAt(cfg, "Cancelled", nm.dirs, f, nm.configs)
        ELSE Called(cfg, r, nm.dirs, r.configs)

\* runRemove: NewManager, and the rest
runRemove(d, f, identifier, flags, in1, in2, flt) ==
    runRemoveWith(NewManagerFrom(d, f, flt.open), f, identifier, flags, in1, in2, flt)

----------------------------------------------------------------------------
(* Inputs.                                                                 *)

Managers == {"m1", "m2"}

EmptyObject == <<"{", "}">>
MemberObject == <<"{", "\"", "a", "\"", ":", "1", "}">>
EmptyArray == <<"[", "]">>
NullValue == <<"n", "u", "l", "l">>
NumberValue == <<"1">>
OpenBrace == <<"{">>
NotJSON == <<"n", "o">>

\* what the caller's temporary file may hold
AddContents == {EmptyObject, MemberObject, EmptyArray, NullValue, OpenBrace}
\* what a user may write into settings.json or a stored file by hand
EditContents == {EmptyArray}

\* names: the empty one, and two that read like the first two identities (a
\* name is any string, and so is an identifier)
Names == {<<>>, Uuid(1), Uuid(2)}
Descriptions == {<<"d">>}
\* identifiers: the names, the identities, and one that is neither
Identifiers == Names \cup {Uuid(n) : n \in 1..MaxAdds} \cup {<<"z">>}

\* Fault plans: one fault per I/O call of the operation, in call order.  A
\* call after the one that ends the operation never runs, so its fault is
\* fixed to NoFault.
AddFaults ==
    {f \in [vr : ReadFaults, cr : ReadFaults, cw : WriteFaults, sw : WriteFaults,
            rm : ReadFaults] :
        /\ f.vr # NoFault => f.cr = NoFault /\ f.cw = NoFault /\ f.sw = NoFault
        /\ f.cr # NoFault => f.cw = NoFault /\ f.sw = NoFault
        /\ f.cw # NoFault => f.sw = NoFault
        /\ f.sw = NoFault => f.rm = NoFault}

ApplyFaults ==
    {f \in [vr : ReadFaults, br : ReadFaults, bw : WriteFaults, tr : ReadFaults,
            tw : WriteFaults, rr : ReadFaults, rw : WriteFaults] :
        /\ f.vr # NoFault => f.br = NoFault /\ f.bw = NoFault /\ f.tr = NoFault
        /\ f.br # NoFault => f.bw = NoFault /\ f.tr = NoFault
        /\ f.bw # NoFault => f.tr = NoFault
        /\ f.tr # NoFault => f.tw = NoFault
        /\ (f.vr # NoFault \/ f.br # NoFault \/ f.bw # NoFault) => f.tw = NoFault
        /\ (f.tr = NoFault /\ f.tw = NoFault) => f.rr = NoFault
        /\ f.rr # NoFault => f.rw = NoFault
        /\ (f.tr = NoFault /\ f.tw = NoFault) => f.rw = NoFault}

OpenFaults ==
    {f \in [d1 : ReadFaults, d2 : ReadFaults, rd : ReadFaults] :
        /\ f.d1 # NoFault => f.d2 = NoFault /\ f.rd = NoFault
        /\ f.d2 # NoFault => f.rd = NoFault}

RemoveFaults ==
    {f \in [rm : ReadFaults, sw : WriteFaults] : f.rm # NoFault => f.sw = NoFault}

\* the flags of the commands
ApplyFlags == [dryRun : BOOLEAN, confirm : BOOLEAN, force : BOOLEAN]
RemoveFlags == [dryRun : BOOLEAN, force : BOOLEAN]

\* what ReadString returns at a prompt: a line, or nothing and io.EOF
Eof == [eof |-> TRUE, line |-> <<>>]
Line(v) == [eof |-> FALSE, line |-> v]
\* answers to a yes-or-no prompt
Answers ==
    {Eof, Line(<<"y">>), Line(<<" ", "Y">>), Line(<<"y", "e", "s">>), Line(<<"n">>)}
\* what the user types when asked for the record's name
TypedNames == {Eof, Line(Uuid(1)), Line(Uuid(2) \o <<" ">>)}

\* the plans in which no I/O call fails
AddNoFault == {f \in AddFaults : \A k \in DOMAIN f : f[k] = NoFault}
ApplyNoFault == {f \in ApplyFaults : \A k \in DOMAIN f : f[k] = NoFault}
RemoveNoFault == {f \in RemoveFaults : \A k \in DOMAIN f : f[k] = NoFault}
OpenNoFault == {f \in OpenFaults : \A k \in DOMAIN f : f[k] = NoFault}

----------------------------------------------------------------------------
(* The state machine.                                                      *)

\* ret: op, the operation; err, the error it returned ("nil": none); id, the
\* identity of the record it returned or resolved; had, whether settings.json
\* (for apply) or the resolved record's stored file (for remove) existed when
\* it was called or (for a command) whether the command called the Manager's
\* ApplyConfig or RemoveConfig; restore, what became of apply's restore step
Ret(op, err, id, restore, had) ==
    [op |-> op, err |-> err, id |-> id, restore |-> restore, had |-> had]

\* nothing has run yet: no storage directory, no Manager; settings.json is
\* absent or holds what the user put there
Init ==
    /\ configs = [m \in Managers |-> <<>>]
    /\ writing = [m \in Managers |-> NotWriting]
    /\ cmds = [p \in Procs |-> Idle]
    /\ \/ fs = [p \in {} |-> <<>>]
       \/ \E data \in EditContents : fs = [p \in {GetClaudeSettingsPath} |-> data]
    /\ clock = 0
    /\ dirs = {}
    /\ ret = Ret("init", "nil", NoId, "none", FALSE)

\* a Manager has been returned: NewManager has created the directories
Opened == StorageDirs \subseteq dirs

\* config.NewManager(): a process starts, makes sure of the directories and
\* loads the metadata document
NewManager(m) ==
    \E flt \in OpenFaults :
        \E r \in {NewManagerFrom(dirs, fs, flt)} :
        /\ configs' = [configs EXCEPT ![m] = IF r.open THEN r.configs ELSE @]
        /\ dirs' = r.dirs
        /\ ret' = Ret("open", r.err, NoId, "none", FALSE)
        /\ UNCHANGED <<fs, clock, writing, cmds>>

\* m.AddConfig(tempFile, name, description) on a temporary file holding
\* content, which the caller removes afterwards; names are the names the
\* caller may give and limit the number of identities generated
AddFrom(m, plans, names, limit) ==
    \E content \in AddContents, name \in names, description \in Descriptions,
       flt \in plans :
        \E r \in {AddConfig(configs[m], Put(fs, TempPath, content), clock, TempPath,
                             name, description, flt)} :
            /\ Opened
            /\ r.clock <= limit
            /\ configs' = [configs EXCEPT ![m] = r.configs]
            /\ fs' = Del(r.fs, TempPath)
            /\ clock' = r.clock
            /\ UNCHANGED <<dirs, writing, cmds>>
            /\ ret' = Ret("add", r.err, r.rec.id, "none", FALSE)

Add(m, plans) == AddFrom(m, plans, Names, MaxAdds)

\* m.ApplyConfig(identifier)
Apply(m, plans) ==
    \E identifier \in Identifiers, flt \in plans :
        \E r \in {ApplyConfig(configs[m], fs, identifier, flt)} :
        /\ Opened
        /\ fs' = r.fs
        /\ ret' = Ret("apply", r.err, r.rec.id, r.restore, r.had)
        /\ UNCHANGED <<configs, clock, dirs, writing, cmds>>

\* m.RemoveConfig(identifier)
RemoveCall(m, plans) ==
    \E identifier \in Identifiers, flt \in plans :
        \E r \in {RemoveConfig(configs[m], fs, identifier, flt)} :
        /\ Opened
        /\ configs' = [configs EXCEPT ![m] = r.configs]
        /\ fs' = r.fs
        /\ ret' = Ret("remove", r.err, r.rec.id, "none",
                      r.rec.id # NoId /\ Stat(fs, r.rec.file_path))
        /\ UNCHANGED <<clock, dirs, writing, cmds>>

\* the user edits a stored file outside the tool
ExternalWriteFrom(contents) ==
    \E p \in {FilePath(Uuid(n)) : n \in 1..clock}, data \in contents :
        /\ p \in DOMAIN fs
        /\ fs' = Put(fs, p, data)
        /\ ret' = Ret("edit", "nil", NoId, "none", FALSE)
        /\ UNCHANGED <<configs, clock, dirs, writing, cmds>>

ExternalWrite == ExternalWriteFrom(EditContents)

\* m.ValidateConfig(identifier)
Validate(m) ==
    \E identifier \in Identifiers, flt \in ReadFaults :
        LET i == GetConfig(configs[m], identifier) IN
        /\ Opened
        /\ ret' = Ret("validate", ValidateConfig(configs[m], fs, identifier, flt),
                      IF i = 0 THEN NoId ELSE configs[m][i].id, "none", FALSE)
        /\ UNCHANGED <<configs, fs, clock, dirs, writing, cmds>>

\* m.ValidateAllConfigs()
ValidateAll(m) ==
    /\ Opened
    /\ ret' = Ret("validateAll",
                  IF ValidateAllConfigs(configs[m], fs) = <<>> THEN "nil" ELSE "Invalid",
                  NoId, "none", FALSE)
    /\ UNCHANGED <<configs, fs, clock, dirs, writing, cmds>>

\* the fault plans of the commands, given the one of NewManager
ApplyCmdFaults(open) ==
    [open |-> open, vr |-> NoFault, apply |-> CHOOSE a \in ApplyNoFault : TRUE]
RemoveCmdFaults(open) ==
    [open |-> open, remove |-> CHOOSE a \in RemoveNoFault : TRUE]

\* runApply waits at its prompt (apply.go:126): it has passed
\* checkPrerequisites, created its Manager nm, found the record, is no dry
\* run, and --confirm is set without --force
runApplyWaits(d, nm, identifier, flags) ==
    /\ checkPrerequisites(d) = "nil"
    /\ nm.open
    /\ GetConfig(nm.configs, identifier) # 0
    /\ ~flags.dryRun
    /\ flags.confirm /\ ~flags.force

\* runRemove waits at its first prompt (remove.go:98): it has created its
\* Manager nm, found the record, is no dry run, and --force is not set
runRemoveWaits(nm, identifier, flags) ==
    /\ nm.open
    /\ GetConfig(nm.configs, identifier) # 0
    /\ ~flags.dryRun
    /\ ~flags.force

\* runRemove, after the answer in1 to its first prompt, waits at its second
\* prompt (remove.go:114)
runRemoveWaitsAgain(in1) ==
    /\ ~in1.eof
    /\ ToLower(TrimSpace(in1.line)) \in {<<"y">>, <<"y", "e", "s">>}

\* a command has printed a prompt, or opened the editor, and waits there
Prompt == "Prompt"

\* createTempConfigFile, defaultSettings: a JSON object with members
DefaultSettings == MemberObject

\* createTempConfigFile(manager): what the temporary file of the command
\* holds, a copy of settings.json or the default settings
createTempConfigFile(f, rflt) ==
    LET r == ReadFile(f, GetClaudeSettingsPath, rflt) IN
    IF ~Stat(f, GetClaudeSettingsPath) THEN [err |-> "nil", data |-> DefaultSettings]
    ELSE IF r.err # "nil" THEN [err |-> "TempFailed", data |-> <<>>]
    ELSE [err |-> "nil", data |-> r.data]

\* runAdd as far as the editor: checkPrerequisites, editor.IsEditorAvailable
\* (available), NewManager (which returns nm when it is called),
\* createTempConfigFile
runAddBeginWith(d, nm, f, available) ==
    LET t == createTempConfigFile(f, NoFault) IN
    IF checkPrerequisites(d) # "nil"
    THEN [err |-> "NoClaudeDir", dirs |-> d, nm |-> nm, temp |-> <<>>]
    ELSE IF ~available THEN [err |-> "NoEditor", dirs |-> d, nm |-> nm, temp |-> <<>>]
    ELSE IF ~nm.open THEN [err |-> nm.err, dirs |-> nm.dirs, nm |-> nm, temp |-> <<>>]
    ELSE IF t.err # "nil"
         THEN [err |-> t.err, dirs |-> nm.dirs, nm |-> nm, temp |-> <<>>]
    ELSE [err |-> "nil", dirs |-> nm.dirs, nm |-> nm, temp |-> t.data]

\* storage.IsValidJSON(tempFile), on what the file holds
IsValidJSON(data) == IF ValidJSON(data) THEN "nil" ELSE "InvalidJSON"

\* where runAdd, holding c, waits next: after the editor, after the name is
\* known, after the description is known; "call" when it asks no more
runAddAfterName(c) == IF c.description = <<>> THEN "description" ELSE "call"
runAddAfterValid(c) == IF c.name = <<>> THEN "name" ELSE runAddAfterName(c)
runAddAfterEditor(c) ==
    IF IsValidJSON(c.temp) # "nil" THEN "again" ELSE runAddAfterValid(c)

\* runAdd from "Validate name" on: the name is trimmed and must not be empty,
\* then manager.AddConfig on the temporary file, which is removed at the end
runAddCall(c, f, clk, flt) ==
    IF TrimSpace(c.name) = <<>>
    THEN [err |-> "EmptyName", fs |-> f, clock |-> clk, rec |-> NoConfig,
          called |-> FALSE]
    ELSE CHOOSE r \in
            {[err |-> a.err, fs |-> Del(a.fs, TempPath), clock |-> a.clock,
              rec |-> a.rec, called |-> TRUE] :
                a \in {AddConfig(c.nm.configs, Put(f, TempPath, c.temp), clk, TempPath,
                                 TrimSpace(c.name), TrimSpace(c.description), flt)}} :
            TRUE

\* runAdd has asked and waits again
runAddWaits(f, clk) ==
    [err |-> Prompt, fs |-> f, clock |-> clk, rec |-> NoConfig, called |-> FALSE]

\* The commands of p1 are run with every flag and every answer.  The
\* commands of p2 are commands that do not ask: add with both flags, which
\* waits in the editor only, apply without --confirm, remove with --force.
\* The flags of add are --name and --description, each given or not.
AddFlags == [name : {<<>>, Uuid(2)}, description : {<<>>} \cup Descriptions]
AddFlagsOf(p) ==
    IF p = "p1" THEN AddFlags
    ELSE {flags \in AddFlags : flags.name # <<>> /\ flags.description # <<>>}
ApplyFlagsOf(p) ==
    IF p = "p1" THEN ApplyFlags
    ELSE {flags \in ApplyFlags : ~flags.confirm /\ ~flags.dryRun}
RemoveFlagsOf(p) ==
    IF p = "p1" THEN RemoveFlags
    ELSE {flags \in RemoveFlags : flags.force /\ ~flags.dryRun}

\* what the editor leaves in the temporary file, or its failure; what is
\* typed at the prompts for the name and for the description
EditorFailed == [ok |-> FALSE, data |-> <<>>]
Edits ==
    {EditorFailed} \cup {[ok |-> TRUE, data |-> content] : content \in {EmptyObject, OpenBrace}}
EditsOf(p) == IF p = "p1" THEN Edits ELSE {[ok |-> TRUE, data |-> EmptyObject]}
AddTypedNames == TypedNames \cup {Line(<<" ">>)}
TypedDescriptions == {Eof, Line(<<"d">>)}

\* claude-switch add [--name n] [--description d], as far as the editor,
\* where NewManager returns nm; also the run that "edit again" starts, with
\* the flags of the run that asked
RunAddBegins(p, nm) ==
    \E flags \in (IF cmds[p] = Idle THEN AddFlagsOf(p) ELSE {cmds[p].flags}),
       available \in BOOLEAN :
        \E b \in {runAddBeginWith(dirs, nm, fs, available)} :
            /\ cmds' = [cmds EXCEPT ![p] =
                          IF b.err = "nil"
                          THEN [at |-> "editor", op |-> "runAdd", nm |-> nm,
                                flags |-> flags, temp |-> b.temp, name |-> flags.name,
                                description |-> flags.description]
                          ELSE Idle]
            /\ dirs' = b.dirs
            /\ ret' = Ret("runAdd", IF b.err = "nil" THEN Prompt ELSE b.err, NoId,
                          "none", FALSE)
            /\ UNCHANGED <<configs, fs, clock, writing>>

\* claude-switch apply <identifier> [--dry-run] [--confirm] [--force], as far
\* as its prompt or, when it does not ask, to its end
RunApplyBegins(p, nm, open) ==
    \E identifier \in Identifiers, flags \in ApplyFlagsOf(p) :
        \E r \in {runApplyWith(dirs, nm, fs, identifier, flags, Eof,
                                ApplyCmdFaults(open))} :
        \E waits \in {runApplyWaits(dirs, nm, identifier, flags)} :
            /\ cmds[p] = Idle
            /\ cmds' = [cmds EXCEPT ![p] =
                          IF waits
                          THEN [at |-> "confirm", op |-> "runApply", nm |-> nm,
                                identifier |-> identifier, flags |-> flags]
                          ELSE Idle]
            /\ fs' = IF waits THEN fs ELSE r.fs
            /\ dirs' = r.dirs
            /\ ret' = Ret("runApply", IF waits THEN Prompt ELSE r.err, r.rec.id,
                          "none", ~waits /\ r.called)
            /\ UNCHANGED <<configs, clock, writing>>

\* claude-switch remove <identifier> [--dry-run] [--force], as far as its
\* first prompt or, when it does not ask, to its end
RunRemoveBegins(p, nm, open) ==
    \E identifier \in Identifiers, flags \in RemoveFlagsOf(p) :
        \E r \in {runRemoveWith(nm, fs, identifier, flags, Eof, Eof,
                                 RemoveCmdFaults(open))} :
        \E waits \in {runRemoveWaits(nm, identifier, flags)} :
            /\ cmds[p] = Idle
            /\ cmds' = [cmds EXCEPT ![p] =
                          IF waits
                          THEN [at |-> "sure", op |-> "runRemove", nm |-> nm,
                                identifier |-> identifier, flags |-> flags]
                          ELSE Idle]
            /\ fs' = IF waits THEN fs ELSE r.fs
            /\ dirs' = r.dirs
            /\ ret' = Ret("runRemove", IF waits THEN Prompt ELSE r.err, r.rec.id,
                          "none", ~waits /\ r.called)
            /\ UNCHANGED <<configs, clock, writing>>

\* process p runs a command: the command creates its own Manager, and runs as
\* far as the first place where it waits
RunBegins(p) ==
    /\ cmds[p].at \in {"idle", "start"}
    /\ \E open \in OpenNoFault :
        \E nm \in {NewManagerFrom(dirs, fs, open)} :
            \/ RunAddBegins(p, nm)
            \/ RunApplyBegins(p, nm, open)
            \/ RunRemoveBegins(p, nm, open)

\* the user answers, or standard input ends: runApply goes on from its
\* prompt, with the Manager it created before it asked, on the files as they
\* are now
RunApplyAnswers(p) ==
    \E in \in Answers :
        \E c \in {cmds[p]} :
            /\ c.at = "confirm"
            /\ \E r \in {runApplyWith(dirs, c.nm, fs, c.identifier, c.flags, in,
                                       ApplyCmdFaults(CHOOSE o \in OpenNoFault : TRUE))} :
                /\ cmds' = [cmds EXCEPT ![p] = Idle]
                /\ fs' = r.fs
                /\ ret' = Ret("runApply", r.err, r.rec.id, "none", r.called)
                /\ UNCHANGED <<configs, clock, dirs, writing>>

\* the answer to "Are you sure": runRemove ends, or asks for the name
RunRemoveAnswers(p) ==
    \E in1 \in Answers :
        \E c \in {cmds[p]} :
            /\ c.at = "sure"
            /\ \E r \in {runRemoveWith(c.nm, fs, c.identifier, c.flags, in1, Eof,
                                        RemoveCmdFaults(CHOOSE o \in OpenNoFault : TRUE))} :
               \E waits \in {runRemoveWaitsAgain(in1)} :
                /\ cmds' = [cmds EXCEPT ![p] =
                              IF waits THEN [c EXCEPT !.at = "type"] ELSE Idle]
                /\ ret' = Ret("runRemove", IF waits THEN Prompt ELSE r.err, r.rec.id,
                              "none", FALSE)
                /\ UNCHANGED <<configs, fs, clock, dirs, writing>>

\* the name is typed, or standard input ends: runRemove goes on from its
\* second prompt, with the Manager it created before it asked, on the files
\* as they are now
RunRemoveTypes(p) ==
    \E in2 \in TypedNames :
        \E c \in {cmds[p]} :
            /\ c.at = "type"
            /\ \E r \in {runRemoveWith(c.nm, fs, c.identifier, c.flags, Line(<<"y">>),
                                        in2,
                                        RemoveCmdFaults(CHOOSE o \in OpenNoFault : TRUE))} :
                /\ cmds' = [cmds EXCEPT ![p] = Idle]
                /\ fs' = r.fs
                /\ ret' = Ret("runRemove", r.err, r.rec.id, "none", r.called)
                /\ UNCHANGED <<configs, clock, dirs, writing>>

\* runAdd, holding c, goes on to where it waits next, at, or to its end
RunAddGoesOn(p, c, at) ==
    \E r \in {IF at = "call"
              THEN runAddCall(c, fs, clock, CHOOSE a \in AddNoFault : TRUE)
              ELSE runAddWaits(fs, clock)} :
        /\ r.clock <= MaxAdds
        /\ cmds' = [cmds EXCEPT ![p] = IF at = "call" THEN Idle ELSE [c EXCEPT !.at = at]]
        /\ fs' = r.fs
        /\ clock' = r.clock
        /\ ret' = Ret("runAdd", r.err, r.rec.id, "none", r.called)
        /\ UNCHANGED <<configs, dirs, writing>>

\* runAdd ends with the error e without calling the Manager
RunAddEnds(p, e) ==
    /\ cmds' = [cmds EXCEPT ![p] = Idle]
    /\ ret' = Ret("runAdd", e, NoId, "none", FALSE)
    /\ UNCHANGED <<configs, fs, clock, dirs, writing>>

\* what runAdd holds after an answer: the text the editor left, the answer
\* to "edit again", the name typed, the description typed (none leaves it
\* empty)
runAddHolds(c, in) ==
    IF c.at = "editor" THEN [c EXCEPT !.temp = in.data]
    ELSE IF c.at = "name" THEN [c EXCEPT !.name = TrimSpace(in.line)]
    ELSE IF c.at = "description" THEN [c EXCEPT !.description = TrimSpace(in.line)]
    ELSE c

\* what ends runAdd at an answer: the editor has failed, "edit again" is not
\* answered with y, no name can be read; "nil" when it goes on
runAddStops(c, in) ==
    IF c.at = "editor" /\ ~in.ok THEN "EditorFailed"
    ELSE IF c.at = "again" /\ ToLower(TrimSpace(in.line)) # <<"y">> THEN "Cancelled"
    ELSE IF c.at = "name" /\ in.eof THEN "ReadFailed"
    ELSE "nil"

\* where runAdd goes from an answer that does not end it; "start": it calls
\* itself
runAddGoesTo(c) ==
    IF c.at = "editor" THEN runAddAfterEditor(c)
    ELSE IF c.at = "again" THEN "start"
    ELSE IF c.at = "name" THEN runAddAfterName(c)
    ELSE "call"

\* what may be answered where runAdd waits
AddAnswers(p, at) ==
    IF at = "editor" THEN EditsOf(p)
    ELSE IF at = "again" THEN Answers
    ELSE IF at = "name" THEN AddTypedNames
    ELSE TypedDescriptions

\* the editor returns, or a prompt of runAdd is answered
RunAddAnswers(p) ==
    \E c \in {cmds[p]} :
        /\ c.at \in {"editor", "again", "name", "description"}
        /\ \E in \in AddAnswers(p, c.at) :
            \E e \in {runAddStops(c, in)} :
                IF e # "nil" THEN RunAddEnds(p, e)
                ELSE \E n \in {runAddHolds(c, in)} : RunAddGoesOn(p, n, runAddGoesTo(n))

\* the user deletes settings.json or a stored file
ExternalDelete ==
    \E p \in DOMAIN fs \ {MetadataPath, BackupPath} :
        /\ fs' = Del(fs, p)
        /\ ret' = Ret("delete", "nil", NoId, "none", FALSE)
        /\ UNCHANGED <<configs, clock, dirs, writing, cmds>>

\* The registry: every I/O call of open, add and remove may fail.
Next ==
    \/ NewManager("m1")
    \/ Add("m1", AddFaults)
    \/ RemoveCall("m1", RemoveFaults)
    \/ ExternalWrite
    \/ ExternalDelete

Spec == Init /\ [][Next]_vars

\* Apply: every I/O call of apply may fail; add and remove run without faults.
NextApply ==
    \/ NewManager("m1")
    \/ Add("m1", AddNoFault)
    \/ RemoveCall("m1", RemoveNoFault)
    \/ Apply("m1", ApplyFaults)
    \/ ExternalWrite
    \/ ExternalDelete

SpecApply == Init /\ [][NextApply]_vars

\* The list: up to MaxListed records under three names; no I/O call of add
\* and remove fails.
ListNames == Names \cup {<<"z">>}

NextList ==
    \/ NewManager("m1")
    \/ AddFrom("m1", AddNoFault, ListNames, MaxListed)
    \/ RemoveCall("m1", RemoveNoFault)

SpecList == Init /\ [][NextList]_vars

\* Validation of the records: add and remove run without faults, and the
\* user may leave malformed text in a stored file.
BrokenContents == EditContents \cup {OpenBrace}

NextValidate ==
    \/ NewManager("m1")
    \/ Add("m1", AddNoFault)
    \/ RemoveCall("m1", RemoveNoFault)
    \/ ExternalWriteFrom(BrokenContents)
    \/ ExternalDelete
    \/ Validate("m1")
    \/ ValidateAll("m1")

SpecValidate == Init /\ [][NextValidate]_vars

\* The commands: Claude Code is installed or not; records are added without
\* faults; apply and remove run as commands, over every flag and answer,
\* with no I/O call failing.
InitCli ==
    /\ configs = [m \in Managers |-> <<>>]
    /\ writing = [m \in Managers |-> NotWriting]
    /\ cmds = [p \in Procs |-> Idle]
    /\ \/ fs = [p \in {} |-> <<>>] /\ dirs \in {{}, {claudeDir}}
       \/ /\ \E data \in EditContents : fs = [p \in {GetClaudeSettingsPath} |-> data]
          /\ dirs = {claudeDir}
    /\ clock = 0
    /\ ret = Ret("init", "nil", NoId, "none", FALSE)

NextCli ==
    \E p \in Procs :
        \/ RunBegins(p)
        \/ RunAddAnswers(p)
        \/ RunApplyAnswers(p)
        \/ RunRemoveAnswers(p)
        \/ RunRemoveTypes(p)

SpecCli == InitCli /\ [][NextCli]_vars

\* The validator: a file holding any text of up to MaxText characters, or one
\* of some longer texts, is validated.
TextChars == {"{", "}", "[", "]", ":", ",", "\"", "0", "1", " ", "n", "u", "l"}
Texts == UNION {[1..n -> TextChars] : n \in 0..MaxText}
LongTexts ==
    {MemberObject, NotJSON,
     <<"t", "r", "u", "e">>, <<"f", "a", "l", "s", "e">>, <<"t", "r", "u">>,
     <<"{", "\"", "a", "\"", ":", "{", "}", "}">>,
     <<"{", "\"", "a", "\"", ":", "1", ",", "}">>,
     <<"{", "\"", "a", "\"", " ", "1", "}">>,
     <<"{", "a", ":", "1", "}">>,
     <<"{", "\"", "a", "\"", ":", "0", "1", "}">>,
     <<"{", "\"", "a", "\"", ":", "[", "1", ",", "n", "u", "l", "l", "]", "}">>,
     <<"{", "\"", "a", "\"", ":", "1", ",", "\"", "a", "\"", ":", "1", "}">>,
     <<"[", "{", "}", ",", " ", "1", "]">>,
     <<"{", "}", " ", "{", "}">>,
     <<" ", "n", "u", "l", "l", " ">>}

InitValidator ==
    /\ configs = [m \in Managers |-> <<>>]
    /\ writing = [m \in Managers |-> NotWriting]
    /\ cmds = [p \in Procs |-> Idle]
    /\ \E data \in Texts \cup LongTexts : fs = [p \in {TempPath} |-> data]
    /\ clock = 0
    /\ dirs = {}
    /\ ret = Ret("init", "nil", NoId, "none", FALSE)

\* validation.ValidateClaudeSettingsFile(tempFile)
ValidateFile ==
    \E flt \in ReadFaults :
        /\ Stat(fs, TempPath)
        /\ ret' = Ret("check", ValidateClaudeSettingsFile(fs, TempPath, flt), NoId,
                      "none", FALSE)
        /\ UNCHANGED <<configs, fs, clock, dirs, writing, cmds>>

NextValidator == ValidateFile

SpecValidator == InitValidator /\ [][NextValidator]_vars

----------------------------------------------------------------------------
(* Properties of apply, under SpecApply.                                   *)

Target == GetClaudeSettingsPath

\* the file at p is the same before and after the step
SameFile(p) == (Stat(fs, p) <=> Stat(fs', p)) /\ (Stat(fs, p) => fs'[p] = fs[p])

\* C1: a successful apply leaves settings.json equal to the stored content of
\* the applied record and, when settings.json existed before the call, leaves
\* the backup equal to what settings.json held immediately before the call.
ApplyCopiesAndBacksUp ==
    [][(ret'.op = "apply" /\ ret'.err = "nil") =>
          /\ Stat(fs', Target)
          /\ Stat(fs, FilePath(ret'.id))
          /\ fs'[Target] = fs[FilePath(ret'.id)]
          /\ Stat(fs, Target) => (Stat(fs', BackupPath) /\ fs'[BackupPath] = fs[Target])
      ]_vars

\* C1 witness: an apply succeeded over an existing settings.json whose content
\* differed from the applied record's.
ApplyReplacedSettings ==
    /\ ret.op = "apply" /\ ret.err = "nil" /\ ret.had
    /\ Stat(fs, BackupPath) /\ Stat(fs, Target)
    /\ fs[BackupPath] # fs[Target]

\* C2: a successful apply with no settings.json creates it with the record's
\* content and leaves the backup slot as it was; a successful apply of the
\* same record right after backs up what the first one wrote.
FirstApplyMakesNoBackup ==
    [][/\ (ret'.op = "apply" /\ ret'.err = "nil" /\ ~Stat(fs, Target)) =>
            /\ Stat(fs', Target) /\ fs'[Target] = fs[FilePath(ret'.id)]
            /\ SameFile(BackupPath)
       /\ (/\ ret.op = "apply" /\ ret.err = "nil" /\ ~ret.had
           /\ ret'.op = "apply" /\ ret'.err = "nil" /\ ret'.id = ret.id) =>
            /\ Stat(fs', BackupPath) /\ fs'[BackupPath] = fs[Target]
            /\ fs'[Target] = fs[Target]
      ]_vars

\* C2 witness: an apply succeeded with no settings.json before it, and there
\* is still no backup.
AppliedWithoutBackup ==
    /\ ret.op = "apply" /\ ret.err = "nil" /\ ~ret.had
    /\ Stat(fs, Target) /\ ~Stat(fs, BackupPath)

\* the backup copy of ApplyConfig(identifier) runs under plan flt and fails
BackupCopyFails(identifier, flt) ==
    LET i == GetConfig(configs["m1"], identifier) IN
    /\ i # 0
    /\ ValidateClaudeSettingsFile(fs, configs["m1"][i].file_path, flt.vr) = "nil"
    /\ Stat(fs, Target)
    /\ flt.br # NoFault \/ flt.bw # NoFault

\* C3: when settings.json exists and its copy to the backup slot fails, apply
\* returns an error and settings.json is what it was.
BackupFailureAborts ==
    \A identifier \in Identifiers, flt \in ApplyFaults :
        BackupCopyFails(identifier, flt) =>
            LET r == ApplyConfig(configs["m1"], fs, identifier, flt) IN
            /\ r.err # "nil"
            /\ Stat(r.fs, Target) /\ r.fs[Target] = fs[Target]

\* C3 witness: an apply ended on a failed backup copy that had already
\* truncated the backup, and settings.json is still there.
BackupCopyFailed ==
    /\ ret.op = "apply" /\ ret.err = "BackupFailed" /\ ret.had
    /\ Stat(fs, BackupPath) /\ fs[BackupPath] = <<>>
    /\ Stat(fs, Target) /\ fs[Target] # <<>>

\* the copy onto settings.json of ApplyConfig(identifier) runs under plan flt
\* and fails
TargetCopyFails(identifier, flt) ==
    LET i == GetConfig(configs["m1"], identifier) IN
    /\ i # 0
    /\ ValidateClaudeSettingsFile(fs, configs["m1"][i].file_path, flt.vr) = "nil"
    /\ BackupStep(fs, flt).err = "nil"
    /\ flt.tr # NoFault \/ flt.tw # NoFault

\* C4: when the copy onto settings.json fails, apply tries to restore the
\* backup (if there is one) and returns the copy's failure; a restore that
\* fails is reported as well.
RestoreFailureReported ==
    \A identifier \in Identifiers, flt \in ApplyFaults :
        TargetCopyFails(identifier, flt) =>
            LET r == ApplyConfig(configs["m1"], fs, identifier, flt) IN
            /\ "ApplyFailed" \in r.reported
            /\ Stat(BackupStep(fs, flt).fs, BackupPath) => r.restore # "none"
            /\ r.restore = "failed" => "RestoreFailed" \in r.reported

\* C5: an apply that resolves no record, or whose record's stored content does
\* not validate, fails with NotFound or the validator's error and leaves
\* settings.json and the backup as they were; and whatever an apply writes into
\* settings.json is a valid JSON object.
ApplyRevalidates ==
    [][ret'.op = "apply" =>
          /\ ret'.id = NoId => ret'.err = "NotFound"
          /\ (/\ ret'.id # NoId
              /\ Stat(fs, FilePath(ret'.id))
              /\ ValidateClaudeSettings(fs[FilePath(ret'.id)]) # "nil") =>
                 ret'.err \in {ValidateClaudeSettings(fs[FilePath(ret'.id)]), "ReadFailed"}
          /\ ret'.err \in {"NotFound", "InvalidJSON", "NotAnObject", "ReadFailed"} =>
                 SameFile(Target) /\ SameFile(BackupPath)
          /\ ~SameFile(Target) =>
                 Stat(fs', Target) /\ ValidateClaudeSettings(fs'[Target]) = "nil"
      ]_vars

\* C6: an apply leaves settings.json either as it was or holding the whole
\* content of the applied record, and the backup either as it was or holding
\* the whole previous content of settings.json.
ApplyIsAtomic ==
    [][(ret'.op = "apply" /\ ret'.id # NoId /\ Stat(fs, FilePath(ret'.id))) =>
          /\ \/ SameFile(Target)
             \/ Stat(fs', Target) /\ fs'[Target] = fs[FilePath(ret'.id)]
          /\ \/ SameFile(BackupPath)
             \/ Stat(fs, Target) /\ Stat(fs', BackupPath)
                /\ fs'[BackupPath] = fs[Target]
      ]_vars

----------------------------------------------------------------------------
(* Properties of add, under Spec.                                          *)


\* the outcome of m1.AddConfig on a temporary file holding content
AddOutcome(content, name, description, flt) ==
    AddConfig(configs["m1"], Put(fs, TempPath, content), clock, TempPath, name,
              description, flt)

\* an outcome of AddConfig that changed neither collection nor file system
AddChangedNothing(r) == r.configs = configs["m1"] /\ Del(r.fs, TempPath) = fs

\* get(identifier) on the collection cfgs returns the record c
Gets(cfgs, identifier, c) ==
    GetConfig(cfgs, identifier) # 0 /\ cfgs[GetConfig(cfgs, identifier)] = c

\* the record that a successful add of (name, description) returns
Added(r, name, description) ==
    /\ r.rec.id # NoId /\ r.rec.name = name /\ r.rec.description = description
    /\ r.rec.file_path = FilePath(r.rec.id)

\* no record of cfgs other than c has c's name for identity or c's identity
\* for name
NoCollision(cfgs, c) ==
    \A i \in 1..Len(cfgs) :
        cfgs[i] # c => cfgs[i].id # c.name /\ cfgs[i].name # c.id

\* a step of another operation keeps the record c retrievable by identity and
\* by name, with its stored file as it was
StaysRetrievable(c) ==
    LET cfgs == configs["m1"] IN
    (/\ Gets(cfgs, c.id, c) /\ Gets(cfgs, c.name, c) /\ Stat(fs, c.file_path)
     /\ ret'.op \in {"add", "remove"}
     /\ ~(ret'.op = "remove" /\ ret'.id = c.id)) =>
        /\ Gets(configs'["m1"], c.id, c) /\ Gets(configs'["m1"], c.name, c)
        /\ Stat(fs', c.file_path) /\ fs'[c.file_path] = fs[c.file_path]

\* an apply leaves the stored file of every record as it was
ApplyKeepsStoredFiles ==
    \A identifier \in Identifiers, flt \in ApplyFaults :
        LET r == ApplyConfig(configs["m1"], fs, identifier, flt) IN
        \A i \in 1..Len(configs["m1"]) :
            LET p == configs["m1"][i].file_path IN
            (Stat(fs, p) <=> Stat(r.fs, p)) /\ (Stat(fs, p) => r.fs[p] = fs[p])

\* C7 as stated: after a successful add returning r, get(r.identity) and
\* get(name) return r, with the name and description given, and r's stored
\* file holds the added content; later adds, applies and removes of other
\* records keep it so.
AddThenGetAlways ==
    /\ [](\A content \in AddContents, name \in Names, description \in Descriptions,
             flt \in AddFaults :
            LET r == AddOutcome(content, name, description, flt) IN
            r.err = "nil" =>
                /\ Added(r, name, description)
                /\ Gets(r.configs, r.rec.id, r.rec) /\ Gets(r.configs, name, r.rec)
                /\ Stat(r.fs, r.rec.file_path) /\ r.fs[r.rec.file_path] = content)
    /\ [](ApplyKeepsStoredFiles)
    /\ [][\A i \in 1..Len(configs["m1"]) : StaysRetrievable(configs["m1"][i])]_vars

\* C7 amended: the same, for an added record whose name is no other record's
\* identity and whose identity is no other record's name.
AddThenGet ==
    /\ [](\A content \in AddContents, name \in Names, description \in Descriptions,
             flt \in AddFaults :
            LET r == AddOutcome(content, name, description, flt) IN
            r.err = "nil" =>
                /\ Added(r, name, description)
                /\ NoCollision(r.configs, r.rec) =>
                       Gets(r.configs, r.rec.id, r.rec) /\ Gets(r.configs, name, r.rec)
                /\ Stat(r.fs, r.rec.file_path) /\ r.fs[r.rec.file_path] = content)
    /\ [](ApplyKeepsStoredFiles)
    /\ [][\A i \in 1..Len(configs["m1"]) : StaysRetrievable(configs["m1"][i])]_vars

\* C7 witness: a second record has just been added and get returns it by its
\* identity and by its name.
SecondRecordAdded ==
    LET cfgs == configs["m1"] IN
    /\ ret.op = "add" /\ ret.err = "nil" /\ Len(cfgs) = 2
    /\ cfgs[2].id = ret.id
    /\ Gets(cfgs, ret.id, cfgs[2]) /\ Gets(cfgs, cfgs[2].name, cfgs[2])
    /\ Stat(fs, cfgs[2].file_path)

\* some record of the collection carries this name
NameTaken(name) ==
    \E i \in 1..Len(configs["m1"]) : configs["m1"][i].name = name

\* C8 as stated: whatever the content, an add whose name is the name of an
\* existing record fails with DuplicateName and changes nothing.
DuplicateNameBeforeValidator ==
    \A content \in AddContents, name \in Names, description \in Descriptions,
       flt \in AddFaults :
        NameTaken(name) =>
            LET r == AddOutcome(content, name, description, flt) IN
            r.err = "DuplicateName" /\ AddChangedNothing(r)

\* C8 amended: add checks in the order EmptyName, Validator, DuplicateName.
\* An add whose name is the name of an existing record changes nothing, and
\* fails with DuplicateName when the content is a readable valid JSON object
\* and with the validator's error otherwise.
DuplicateNameAfterValidator ==
    \A content \in AddContents, name \in Names, description \in Descriptions,
       flt \in AddFaults :
        NameTaken(name) =>
            LET r == AddOutcome(content, name, description, flt)
                v == IF flt.vr # NoFault THEN "ReadFailed"
                     ELSE ValidateClaudeSettings(content)
            IN  /\ AddChangedNothing(r)
                /\ name # <<>>
                /\ r.err = IF v = "nil" THEN "DuplicateName" ELSE v

\* C8 witness: an add has failed with DuplicateName.
DuplicateNameRefused ==
    /\ ret.op = "add" /\ ret.err = "DuplicateName"
    /\ Len(configs["m1"]) > 0

\* the contents that are no JSON object, with the error each one is refused
\* with: malformed text, an array, null
InvalidContents == {OpenBrace, EmptyArray, NullValue}
ExpectedError(content) ==
    IF content = OpenBrace THEN "InvalidJSON" ELSE "NotAnObject"

\* C9: an add whose content is not a valid JSON object fails, with the
\* validator's error when the name is not empty and the file can be read, and
\* changes neither the collection, the metadata document nor the stored files.
InvalidContentRefused ==
    \A content \in InvalidContents, name \in Names, description \in Descriptions,
       flt \in AddFaults :
        LET r == AddOutcome(content, name, description, flt) IN
        /\ content \in AddContents
        /\ AddChangedNothing(r)
        /\ r.err = IF name = <<>> THEN "EmptyName"
                   ELSE IF flt.vr # NoFault THEN "ReadFailed"
                   ELSE ExpectedError(content)

\* C9 witness: an add of content that is JSON but no object has failed beside
\* an existing record.
NonObjectRefused ==
    /\ ret.op = "add" /\ ret.err = "NotAnObject"
    /\ Len(configs["m1"]) > 0

\* names that are blank after trimming
BlankNames == {<<>>, <<" ">>, <<" ", " ">>}

\* C10: add fails with EmptyName for every name that is blank after trimming,
\* and then creates no record and no stored file.
BlankNameRefused ==
    \A content \in AddContents, name \in BlankNames, description \in Descriptions,
       flt \in AddFaults :
        TrimSpace(name) = <<>> =>
            LET r == AddOutcome(content, name, description, flt) IN
            r.err = "EmptyName" /\ AddChangedNothing(r)

----------------------------------------------------------------------------
(* Properties of the registry's persistence, under Spec.                   *)

\* C11: when add has copied the content into its stored file and saving the
\* metadata document then fails, add returns the error, the stored file is
\* gone, the collection does not hold the new record and the metadata
\* document is what it was before the call.
SaveFailureRollsBack ==
    \A content \in AddContents \ InvalidContents, name \in Names \ {<<>>},
       description \in Descriptions, flt \in AddFaults :
        LET r == AddOutcome(content, name, description, flt) IN
        (~NameTaken(name) /\ flt.sw # NoFault) =>
            /\ r.err = "SaveFailed"
            /\ FilePath(Uuid(clock + 1)) \notin DOMAIN r.fs
            /\ r.configs = configs["m1"]
            /\ AddChangedNothing(r)

\* the outcome of remove(identifier) in the current state
RemoveOutcome(identifier, flt) == RemoveConfig(configs["m1"], fs, identifier, flt)

\* the records of a collection, as a set
Records(cfgs) == {cfgs[i] : i \in 1..Len(cfgs)}

\* after the outcome r of a remove, the removed record's stored file is gone
\* and the metadata document lists the other records and not the removed one
RemovedFromStorage(r) ==
    LET doc == loadConfigs(r.fs, NoFault) IN
    /\ ~Stat(r.fs, r.rec.file_path)
    /\ Stat(r.fs, MetadataPath) /\ doc.err = "nil"
    /\ Records(doc.configs) = Records(configs["m1"]) \ {r.rec}
    /\ \A c \in Records(doc.configs) : c.id # r.rec.id

\* the outcome r of a remove keeps every other record in the collection, with
\* its stored file as it was
OthersKept(r) ==
    /\ Records(r.configs) = Records(configs["m1"]) \ {r.rec}
    /\ \A c \in Records(r.configs) :
           /\ Stat(fs, c.file_path) <=> Stat(r.fs, c.file_path)
           /\ Stat(fs, c.file_path) => r.fs[c.file_path] = fs[c.file_path]

\* C12 as stated: after a successful remove, get by the removed record's
\* identity and by its name fail with NotFound, its stored file is gone, the
\* metadata document does not list it, and every other record is still
\* returned by get on its identity and on its name.
RemoveThenGetFailsAlways ==
    \A identifier \in Identifiers, flt \in RemoveFaults :
        LET r == RemoveOutcome(identifier, flt) IN
        r.err = "nil" =>
            /\ GetConfig(r.configs, r.rec.id) = 0
            /\ GetConfig(r.configs, r.rec.name) = 0
            /\ RemovedFromStorage(r)
            /\ OthersKept(r)
            /\ \A c \in Records(r.configs) :
                   Gets(r.configs, c.id, c) /\ Gets(r.configs, c.name, c)

\* C12 amended: the same, with get failing for the removed record's identity
\* and name when no remaining record has that identity for name or that name
\* for identity, and with get returning every other record for the
\* identifiers for which it returned that record before the remove.
RemoveThenGetFails ==
    \A identifier \in Identifiers, flt \in RemoveFaults :
        LET r == RemoveOutcome(identifier, flt) IN
        r.err = "nil" =>
            /\ r.rec \in Records(configs["m1"])
            /\ identifier \in {r.rec.id, r.rec.name}
            /\ NoCollision(r.configs, r.rec) =>
                   /\ GetConfig(r.configs, r.rec.id) = 0
                   /\ GetConfig(r.configs, r.rec.name) = 0
            /\ RemovedFromStorage(r)
            /\ OthersKept(r)
            /\ \A c \in Records(r.configs), k \in Identifiers :
                   Gets(configs["m1"], k, c) => Gets(r.configs, k, c)

\* C12 witness: one of two records has just been removed; get finds it
\* neither by identity nor by name, and the other record is still returned.
RemovedOneOfTwo ==
    LET cfgs == configs["m1"] IN
    /\ ret.op = "remove" /\ ret.err = "nil" /\ Len(cfgs) = 1
    /\ ret.id # NoId /\ GetConfig(cfgs, ret.id) = 0
    /\ ~Stat(fs, FilePath(ret.id))
    /\ Gets(cfgs, cfgs[1].id, cfgs[1])
    /\ loadConfigs(fs, NoFault).configs = cfgs

\* C13: remove of a record whose stored file is already absent succeeds when
\* the metadata document can be saved: the missing file is no error, and the
\* record leaves the collection and the metadata document.
RemoveToleratesMissingFile ==
    \A identifier \in Identifiers, flt \in RemoveFaults :
        LET cfgs == configs["m1"]
            i == GetConfig(cfgs, identifier)
            r == RemoveOutcome(identifier, flt)
        IN  (i # 0 /\ ~Stat(fs, cfgs[i].file_path) /\ flt.sw = NoFault) =>
                /\ r.err = "nil" /\ r.rec = cfgs[i]
                /\ Records(r.configs) = Records(cfgs) \ {cfgs[i]}
                /\ Len(r.configs) = Len(cfgs) - 1
                /\ Stat(r.fs, MetadataPath) /\ r.fs[MetadataPath] = Marshal(r.configs)
                /\ loadConfigs(r.fs, NoFault).configs = r.configs

\* C13 witness: a remove has succeeded on a record whose stored file was
\* absent when it was called.
RemovedWithoutFile ==
    /\ ret.op = "remove" /\ ret.err = "nil" /\ ret.id # NoId /\ ~ret.had
    /\ GetConfig(configs["m1"], ret.id) = 0

\* the least index of a non-empty set of indices
First(hits) == CHOOSE i \in hits : \A j \in hits : i <= j

\* C14: get(identifier) returns the record whose identity is the identifier
\* when there is one, else the first record whose name is the identifier,
\* else fails with NotFound.
GetMatchesIdentityFirst ==
    \A identifier \in Identifiers :
        LET cfgs == configs["m1"]
            ids == {i \in 1..Len(cfgs) : cfgs[i].id = identifier}
            names == {i \in 1..Len(cfgs) : cfgs[i].name = identifier}
        IN  GetConfig(cfgs, identifier) =
                IF ids # {} THEN First(ids)
                ELSE IF names # {} THEN First(names)
                ELSE 0

----------------------------------------------------------------------------
(* Properties of the list, under SpecList.                                 *)

\* the records are listed in the order of the ticks at which they were added
InsertionOrdered(cfgs) ==
    \A i, j \in 1..Len(cfgs) : i < j => cfgs[i].created_at < cfgs[j].created_at

\* a step changes the list only by a successful add, which appends the new
\* record, or by a successful remove, which takes one record out and keeps
\* the others in their order
ListStep ==
    LET old == configs["m1"]
        new == configs'["m1"]
    IN  IF ret'.op = "add" /\ ret'.err = "nil"
        THEN /\ Len(new) = Len(old) + 1 /\ SubSeq(new, 1, Len(old)) = old
             /\ new[Len(new)].id = ret'.id
             /\ \A i \in 1..Len(old) : old[i].id # ret'.id
        ELSE IF ret'.op = "remove" /\ ret'.err = "nil"
        THEN \E i \in 1..Len(old) :
                /\ old[i].id = ret'.id
                /\ new = SubSeq(old, 1, i - 1) \o SubSeq(old, i + 1, Len(old))
        ELSE new = old

\* C15: list returns the added and not removed records in the order in which
\* they were added; a remove keeps the order of the other records.
ListInInsertionOrder ==
    /\ [](InsertionOrdered(configs["m1"]))
    /\ [][ListStep]_vars

\* C15 witness: of three records the first has just been removed and the
\* other two are listed in the order in which they were added.
FirstOfThreeRemoved ==
    LET cfgs == configs["m1"] IN
    /\ ret.op = "remove" /\ ret.err = "nil" /\ ret.id = Uuid(1)
    /\ Len(cfgs) = 2 /\ cfgs[1].id = Uuid(2) /\ cfgs[2].id = Uuid(3)

----------------------------------------------------------------------------
(* Properties of a restart, under Spec.                                    *)

\* the names a caller may give, one of them not valid UTF-8
RestartNames == Names \cup {<<InvalidByte>>}

\* a new registry opened on the file system f holds the collection cfgs
OpensAs(f, cfgs) ==
    LET l == loadConfigs(f, NoFault) IN l.err = "nil" /\ l.configs = cfgs

\* C16: after every successful add and every successful remove, a new
\* registry opened on the same storage holds the collection of the registry
\* that performed the operation: same records, same fields, same order.
RestartReproducesCollection ==
    /\ \A content \in AddContents, name \in RestartNames,
          description \in Descriptions, flt \in AddFaults :
           LET r == AddOutcome(content, name, description, flt) IN
           r.err = "nil" => OpensAs(r.fs, r.configs)
    /\ \A identifier \in Identifiers, flt \in RemoveFaults :
           LET r == RemoveOutcome(identifier, flt) IN
           r.err = "nil" => OpensAs(r.fs, r.configs)

\* C17: NewManager yields the empty collection when there is no metadata
\* document, the collection the document serializes when it parses, and
\* fails with CorruptMetadata, returning no Manager, when the document is
\* there and does not parse; directories that exist already are no error;
\* and a NewManager step leaves every file as it is and, when it fails, the
\* collection too.
OpenLoadsOrFails ==
    /\ [](\A flt \in OpenFaults :
            \E r \in {NewManagerFrom(dirs, fs, flt)} :
            /\ StorageDirs \subseteq dirs => r.err # "MkdirFailed" /\ r.dirs = dirs
            /\ (r.err # "MkdirFailed" /\ flt.rd = NoFault) =>
                   IF ~Stat(fs, MetadataPath)
                   THEN r.err = "nil" /\ r.open /\ r.configs = <<>>
                   ELSE IF Unmarshal(fs[MetadataPath]).ok
                   THEN /\ r.err = "nil" /\ r.open
                        /\ Marshal(r.configs) = fs[MetadataPath]
                   ELSE r.err = "CorruptMetadata" /\ ~r.open)
    /\ [][ret'.op = "open" =>
            /\ fs' = fs
            /\ ret'.err # "nil" => configs' = configs]_vars

\* C17 witness: NewManager has failed with CorruptMetadata on a document that
\* is there, with the directories in place.
OpenFoundCorruptDocument ==
    /\ ret.op = "open" /\ ret.err = "CorruptMetadata"
    /\ Stat(fs, MetadataPath) /\ ~Unmarshal(fs[MetadataPath]).ok
    /\ StorageDirs \subseteq dirs

\* C18: the metadata document is never partially persisted.  After every
\* step of add or remove, failed ones included, the document is the one from
\* before the step or the complete serialization of the collection before or
\* after it; so whenever the document is there it parses, and NewManager
\* does not fail with CorruptMetadata.
MetadataNeverPartial ==
    /\ [][(ret'.op \in {"add", "remove"} /\ Stat(fs', MetadataPath)) =>
            \/ Stat(fs, MetadataPath) /\ fs'[MetadataPath] = fs[MetadataPath]
            \/ fs'[MetadataPath] = Marshal(configs["m1"])
            \/ fs'[MetadataPath] = Marshal(configs'["m1"])]_vars
    /\ [](Stat(fs, MetadataPath) =>
            /\ Unmarshal(fs[MetadataPath]).ok
            /\ loadConfigs(fs, NoFault).err # "CorruptMetadata")

----------------------------------------------------------------------------
(* Properties of the validator, under SpecValidator.  The JSON grammar is  *)
(* stated here by the ways a text splits into its parts.                   *)

Part(t, a, b) == SubSeq(t, a, b)

IsWS(t) == \A i \in 1..Len(t) : t[i] = " "

IsStringText(t) ==
    /\ Len(t) >= 2 /\ t[1] = "\"" /\ t[Len(t)] = "\""
    /\ \A i \in 2..(Len(t) - 1) : t[i] # "\""

IsNumberText(t) ==
    /\ Len(t) >= 1 /\ \A i \in 1..Len(t) : t[i] \in DigitChars
    /\ Len(t) > 1 => t[1] # "0"

IsLiteralText(t) ==
    t \in {<<"n", "u", "l", "l">>, <<"t", "r", "u", "e">>,
           <<"f", "a", "l", "s", "e">>}

RECURSIVE IsValueText(_)
RECURSIVE IsElements(_)
RECURSIVE IsMembers(_)

\* the ways to split t into ws, a part and ws: the part is t[a..b]
Splits(t) ==
    {ab \in (1..(Len(t) + 1)) \X (0..Len(t)) :
        /\ ab[1] <= ab[2]
        /\ IsWS(Part(t, 1, ab[1] - 1)) /\ IsWS(Part(t, ab[2] + 1, Len(t)))}

PaddedString(t) == \E ab \in Splits(t) : IsStringText(Part(t, ab[1], ab[2]))
PaddedValue(t) == \E ab \in Splits(t) : IsValueText(Part(t, ab[1], ab[2]))

IsMember(t) ==
    \E k \in 1..Len(t) :
        /\ t[k] = ":"
        /\ PaddedString(Part(t, 1, k - 1))
        /\ PaddedValue(Part(t, k + 1, Len(t)))

IsElements(t) ==
    \/ PaddedValue(t)
    \/ \E k \in 1..Len(t) :
           /\ t[k] = ","
           /\ PaddedValue(Part(t, 1, k - 1))
           /\ IsElements(Part(t, k + 1, Len(t)))

IsMembers(t) ==
    \/ IsMember(t)
    \/ \E k \in 1..Len(t) :
           /\ t[k] = ","
           /\ IsMember(Part(t, 1, k - 1))
           /\ IsMembers(Part(t, k + 1, Len(t)))

IsArrayText(t) ==
    /\ Len(t) >= 2 /\ t[1] = "[" /\ t[Len(t)] = "]"
    /\ LET inner == Part(t, 2, Len(t) - 1) IN IsWS(inner) \/ IsElements(inner)

IsObjectText(t) ==
    /\ Len(t) >= 2 /\ t[1] = "{" /\ t[Len(t)] = "}"
    /\ LET inner == Part(t, 2, Len(t) - 1) IN IsWS(inner) \/ IsMembers(inner)

IsValueText(t) ==
    \/ IsLiteralText(t) \/ IsNumberText(t) \/ IsStringText(t)
    \/ IsArrayText(t) \/ IsObjectText(t)

\* the verdict the contract gives a text
Verdict(t) ==
    IF \E ab \in Splits(t) : IsObjectText(Part(t, ab[1], ab[2])) THEN "nil"
    ELSE IF PaddedValue(t) THEN "NotAnObject"
    ELSE "InvalidJSON"

\* C19: the validator's verdict on a text is ok when the text is a JSON
\* object, NotAnObject when it is another JSON value, InvalidJSON when it is
\* no JSON; a validation returns that verdict for the file's content and
\* changes neither the file nor anything else.
ValidatorClassifies ==
    /\ [](\A p \in DOMAIN fs :
            /\ ValidateClaudeSettings(fs[p]) = Verdict(fs[p])
            /\ ValidateClaudeSettingsFile(fs, p, NoFault) = Verdict(fs[p]))
    /\ [][ret'.op = "check" =>
            /\ ret'.err \in {Verdict(fs[TempPath]), "ReadFailed"}
            /\ UNCHANGED <<configs, fs, clock, dirs>>]_vars

\* C19 witness: a file holding an object whose member is an array has been
\* validated and found ok.
ObjectFoundValid ==
    /\ ret.op = "check" /\ ret.err = "nil"
    /\ fs[TempPath] =
           <<"{", "\"", "a", "\"", ":", "[", "1", ",", "n", "u", "l", "l", "]", "}">>

----------------------------------------------------------------------------
(* Properties of validate and validateAll, under SpecValidate.             *)

\* the error validate gives the stored file at path p
FileVerdict(p) == IF Stat(fs, p) THEN Verdict(fs[p]) ELSE "ReadFailed"

\* the indices of the records whose stored content fails validation or
\* cannot be read
Failing ==
    {i \in 1..Len(configs["m1"]) : FileVerdict(configs["m1"][i].file_path) # "nil"}

\* the k-th failing record
NthFailing(k) == CHOOSE i \in Failing : Cardinality({j \in Failing : j <= i}) = k

\* C20: validateAll returns one failure for each record whose stored content
\* fails validation or cannot be read, with that record's error, and none
\* for the others, in collection order; validate returns the verdict on the
\* record it resolves; neither changes the collection or any file.
ValidateAllReportsEachFailure ==
    /\ [](LET errs == ValidateAllConfigs(configs["m1"], fs) IN
          /\ Len(errs) = Cardinality(Failing)
          /\ \A k \in 1..Len(errs) :
                 /\ errs[k].id = configs["m1"][NthFailing(k)].id
                 /\ errs[k].name = configs["m1"][NthFailing(k)].name
                 /\ errs[k].err = FileVerdict(configs["m1"][NthFailing(k)].file_path))
    /\ [](\A identifier \in Identifiers :
            LET i == GetConfig(configs["m1"], identifier) IN
            ValidateConfig(configs["m1"], fs, identifier, NoFault) =
                IF i = 0 THEN "NotFound"
                ELSE FileVerdict(configs["m1"][i].file_path))
    /\ [][ret'.op \in {"validate", "validateAll"} =>
            UNCHANGED <<configs, fs, clock, dirs>>]_vars

\* C20 witness: validateAll has run on two records whose stored contents both
\* fail validation and has returned a failure for each.
BothRecordsReported ==
    /\ ret.op = "validateAll" /\ ret.err = "Invalid"
    /\ Len(configs["m1"]) = 2 /\ Failing = {1, 2}
    /\ Len(ValidateAllConfigs(configs["m1"], fs)) = 2

----------------------------------------------------------------------------
(* Two processes on one registry. saveConfigs is os.WriteFile on             *)
(* config.json: the file is opened with O_TRUNC and then written from       *)
(* offset 0, and another process may run between the two.                   *)

\* f.Write(data) on a descriptor at offset 0 of a file that holds old
WriteAt0(old, data) == data \o SubSeq(old, Len(data) + 1, Len(old))

RaceContents == {EmptyObject}

\* m.AddConfig as far as the open of config.json inside saveConfigs, or to
\* its return when it fails before
AddBegins(m) ==
    \E content \in RaceContents, name \in Names, description \in Descriptions,
       flt \in AddNoFault :
        \E r \in {AddConfig(configs[m], Put(fs, TempPath, content), clock, TempPath,
                             name, description, flt)} :
        LET saves == r.err = "nil"
        IN  /\ Opened /\ ~writing[m].open
            /\ r.clock <= MaxAdds
            /\ configs' = [configs EXCEPT ![m] = r.configs]
            /\ fs' = IF saves THEN Put(Del(r.fs, TempPath), MetadataPath, <<>>)
                     ELSE Del(r.fs, TempPath)
            /\ writing' = [writing EXCEPT ![m] =
                              IF saves THEN [open |-> TRUE, data |-> r.fs[MetadataPath]]
                              ELSE NotWriting]
            /\ clock' = r.clock
            /\ ret' = Ret(IF saves THEN "saving" ELSE "add", r.err, r.rec.id,
                          "none", FALSE)
            /\ UNCHANGED <<dirs, cmds>>

\* m.RemoveConfig as far as the open of config.json inside saveConfigs, or
\* to its return when it fails before
RemoveBegins(m) ==
    \E identifier \in Identifiers, flt \in RemoveNoFault :
        \E r \in {RemoveConfig(configs[m], fs, identifier, flt)} :
        LET saves == r.err = "nil"
        IN  /\ Opened /\ ~writing[m].open
            /\ configs' = [configs EXCEPT ![m] = r.configs]
            /\ fs' = IF saves THEN Put(r.fs, MetadataPath, <<>>) ELSE r.fs
            /\ writing' = [writing EXCEPT ![m] =
                              IF saves THEN [open |-> TRUE, data |-> r.fs[MetadataPath]]
                              ELSE NotWriting]
            /\ ret' = Ret(IF saves THEN "saving" ELSE "remove", r.err, r.rec.id,
                          "none", FALSE)
            /\ UNCHANGED <<clock, dirs, cmds>>

\* the write and the close of os.WriteFile, and the return of the operation
WriteEnds(m) ==
    /\ writing[m].open
    /\ fs' = Put(fs, MetadataPath, WriteAt0(fs[MetadataPath], writing[m].data))
    /\ writing' = [writing EXCEPT ![m] = NotWriting]
    /\ ret' = Ret("saved", "nil", NoId, "none", FALSE)
    /\ UNCHANGED <<configs, clock, dirs, cmds>>

\* a process starts while none of its own writes is under way
Starts(m) ==
    \E flt \in OpenFaults :
        \E r \in {NewManagerFrom(dirs, fs, flt)} :
        /\ ~writing[m].open
        /\ configs' = [configs EXCEPT ![m] = IF r.open THEN r.configs ELSE @]
        /\ dirs' = r.dirs
        /\ ret' = Ret("open", r.err, NoId, "none", FALSE)
        /\ UNCHANGED <<fs, clock, writing, cmds>>

NextRace ==
    \/ Starts("m1")
    \/ Starts("m2")
    \/ AddBegins("m1")
    \/ AddBegins("m2")
    \/ RemoveBegins("m1")
    \/ RemoveBegins("m2")
    \/ WriteEnds("m1")
    \/ WriteEnds("m2")

SpecRace == Init /\ [][NextRace]_vars

\* C22: when a process finishes its save and no other save is under way,
\* the metadata document is exactly the serialization of that process's
\* collection, and so it loads.
LastWriterWins ==
    [][\A m \in Managers :
          (writing[m].open /\ \A o \in Managers : ~writing'[o].open) =>
              /\ fs'[MetadataPath] = writing[m].data
              /\ fs'[MetadataPath] = Marshal(configs'[m])
              /\ loadConfigs(fs', NoFault).err = "nil"]_vars

----------------------------------------------------------------------------
(* Properties of the commands, under SpecCli.                              *)

\* the fault plans of the commands in which NewManager may fail
ApplyRuns == {ApplyCmdFaults(open) : open \in OpenFaults}
\* at the prompts of a dry run, which are never printed
DryAnswers == {Eof, Line(<<"y">>)}
RemoveRuns == {RemoveCmdFaults(open) : open \in OpenFaults}

\* C21: with --dry-run, whatever the other flags and the answers, the apply
\* command does not call ApplyConfig and the remove command does not call
\* RemoveConfig, and no file is changed: settings.json, the backup, the
\* metadata document and the stored files are what they were; the step of a
\* dry run leaves the collection as it was.
DryRunChangesNothing ==
    /\ [](\A flt \in ApplyRuns : \A nm \in {NewManagerFrom(dirs, fs, flt.open)} :
          \A identifier \in Identifiers, flags \in ApplyFlags, in \in DryAnswers :
            LET r == runApplyWith(dirs, nm, fs, identifier, flags, in, flt) IN
            flags.dryRun =>
                /\ ~r.called /\ r.fs = fs
                /\ ~runApplyWaits(dirs, nm, identifier, flags)
                /\ r.err \in {"DryRun", "NotFound", "NoClaudeDir", "MkdirFailed",
                              "ReadFailed", "CorruptMetadata"})
    /\ [](\A flt \in RemoveRuns : \A nm \in {NewManagerFrom(dirs, fs, flt.open)} :
          \A identifier \in Identifiers, flags \in RemoveFlags, in1 \in DryAnswers,
             in2 \in DryAnswers :
            LET r == runRemoveWith(nm, fs, identifier, flags, in1, in2, flt) IN
            flags.dryRun =>
                /\ ~r.called /\ r.fs = fs
                /\ ~runRemoveWaits(nm, identifier, flags)
                /\ r.err \in {"DryRun", "NotFound", "MkdirFailed", "ReadFailed",
                              "CorruptMetadata"})
    /\ [][(ret'.op \in {"runApply", "runRemove"} /\ ret'.err = "DryRun") =>
            fs' = fs /\ cmds' = cmds /\ ~ret'.had]_vars

\* C21 witness: a dry run of remove has ended on a record, which is still in
\* the metadata document, with its stored file.
DryRunOfRemove ==
    /\ ret.op = "runRemove" /\ ret.err = "DryRun" /\ ~ret.had /\ ret.id # NoId
    /\ \E c \in Records(loadConfigs(fs, NoFault).configs) :
           c.id = ret.id /\ Stat(fs, c.file_path)

\* the answers that are y or yes, and the answers that are y, in any case
\* and inside any blanks; the lines that are the name inside any blanks
SaysYes == {Line(<<"y">>), Line(<<" ", "Y">>), Line(<<"y", "e", "s">>)}
SaysY == {Line(<<"y">>), Line(<<" ", "Y">>)}
TypesName(name) == {Line(name), Line(name \o <<" ">>)}

\* the fault plan of a command in which no I/O call fails
ApplyRunsClean == ApplyCmdFaults(CHOOSE o \in OpenNoFault : TRUE)
RemoveRunsClean == RemoveCmdFaults(CHOOSE o \in OpenNoFault : TRUE)

\* C25: without --force, remove calls RemoveConfig only from its second
\* prompt, and there exactly when the first answer was y or yes and the line
\* typed is the record's name; apply with --confirm and without --force
\* calls ApplyConfig only from its prompt, and only when the answer is y.  A
\* command that does not call the Manager leaves every file as it was.
PromptsGuardTheCall ==
    /\ [](\A flt \in RemoveRuns : \A nm \in {NewManagerFrom(dirs, fs, flt.open)} :
          \A identifier \in Identifiers, flags \in RemoveFlags :
            LET r == runRemoveWith(nm, fs, identifier, flags, Eof, Eof, flt) IN
            ~flags.force =>
                /\ ~r.called /\ r.fs = fs
                /\ runRemoveWaits(nm, identifier, flags)
                      <=> (~flags.dryRun /\ r.rec # NoConfig))
    /\ [](\A flt \in ApplyRuns : \A nm \in {NewManagerFrom(dirs, fs, flt.open)} :
          \A identifier \in Identifiers, flags \in ApplyFlags :
            LET r == runApplyWith(dirs, nm, fs, identifier, flags, Eof, flt) IN
            (flags.confirm /\ ~flags.force) => ~r.called /\ r.fs = fs)
    /\ [](\A p \in Procs : \A c \in {cmds[p]} :
            /\ c.at = "sure" =>
                 \A in1 \in Answers, in2 \in TypedNames :
                    LET r == runRemoveWith(c.nm, fs, c.identifier, c.flags, in1, in2,
                                           RemoveRunsClean)
                    IN  /\ r.called <=> (in1 \in SaysYes /\ in2 \in TypesName(r.rec.name))
                        /\ runRemoveWaitsAgain(in1) <=> in1 \in SaysYes
                        /\ ~r.called => r.fs = fs
            /\ c.at = "type" =>
                 \A in2 \in TypedNames :
                    LET r == runRemoveWith(c.nm, fs, c.identifier, c.flags,
                                           Line(<<"y">>), in2, RemoveRunsClean)
                    IN  /\ r.called <=> in2 \in TypesName(r.rec.name)
                        /\ ~r.called => r.fs = fs
            /\ c.at = "confirm" =>
                 \A in \in Answers :
                    LET r == runApplyWith(dirs, c.nm, fs, c.identifier, c.flags, in,
                                          ApplyRunsClean)
                    IN  /\ r.called => in \in SaysY
                        /\ ~r.called => r.fs = fs)
    /\ [][(ret'.op \in {"runApply", "runRemove"} /\ ~ret'.had) =>
            UNCHANGED <<fs, clock, configs>>]_vars

\* C25 witness: a remove has ended at a prompt that was not answered with
\* consent; the record is in the metadata document and its stored file is
\* there.
RemoveCancelledAtPrompt ==
    /\ ret.op = "runRemove" /\ ret.err = "Cancelled" /\ ~ret.had
    /\ \E c \in Records(loadConfigs(fs, NoFault).configs) :
           c.id = ret.id /\ Stat(fs, c.file_path)

\* C26: when settings.json does not exist at the call and the copy onto it
\* fails, apply leaves the files as the failed copy left them: nothing is
\* restored from the backup path, whether or not a backup file lies there.
RestoreOnlyOwnBackup ==
    \A identifier \in Identifiers, flt \in ApplyFaults :
        LET r == ApplyConfig(configs["m1"], fs, identifier, flt) IN
        (~Stat(fs, GetClaudeSettingsPath) /\ r.err = "ApplyFailed") =>
            /\ r.restore = "none"
            /\ r.fs = copyFile(fs, r.rec.file_path, GetClaudeSettingsPath,
                               flt.tr, flt.tw).fs

\* the file at p in g holds data
Holds(g, p, data) == Stat(g, p) /\ g[p] = data

\* the file systems an apply of the record at index i passes through under
\* the faults flt: at the call, after the backup step, after the copy onto
\* settings.json and after the restore; a write that is cut is a write that
\* is under way
ApplyStates(i, flt) ==
    LET bk == BackupStep(fs, flt)
        cp == copyFile(bk.fs, configs["m1"][i].file_path, GetClaudeSettingsPath,
                       flt.tr, flt.tw)
        rs == RestoreStep(cp.fs, flt)
    IN  {fs, bk.fs}
        \cup (IF bk.err = "nil" THEN {cp.fs} ELSE {})
        \cup (IF bk.err = "nil" /\ cp.err # "nil" THEN {rs.fs} ELSE {})

\* C27: when settings.json exists at the call, in every state an apply passes
\* through and in the state it ends in, settings.json or the backup holds
\* the whole content settings.json had at the call.
PreviousSettingsKept ==
    \A identifier \in Identifiers, flt \in ApplyFaults :
        LET i == GetConfig(configs["m1"], identifier)
            r == ApplyConfig(configs["m1"], fs, identifier, flt)
            kept(g) == \/ Holds(g, GetClaudeSettingsPath, fs[GetClaudeSettingsPath])
                       \/ Holds(g, BackupPath, fs[GetClaudeSettingsPath])
        IN  (Stat(fs, GetClaudeSettingsPath) /\ i # 0) =>
                /\ kept(r.fs)
                /\ r.err \notin {"NotFound", "InvalidJSON", "NotAnObject", "ReadFailed"}
                      => r.fs \in ApplyStates(i, flt)
                /\ ValidateClaudeSettingsFile(fs, configs["m1"][i].file_path, flt.vr) = "nil"
                      => \A g \in ApplyStates(i, flt) : kept(g)

\* C27 witness: an apply on an existing settings.json has failed at the copy
\* and its restore has failed too; settings.json is cut short and the backup
\* holds what it held before.
SettingsKeptInBackupOnly ==
    /\ ret.op = "apply" /\ ret.had /\ ret.err = "ApplyFailed" /\ ret.restore = "failed"
    /\ Stat(fs, BackupPath)
    /\ ~Holds(fs, GetClaudeSettingsPath, fs[BackupPath])

\* C28: when remove has deleted the stored file and the save then fails,
\* remove returns the error, its collection no longer holds the record, the
\* file is gone, and the metadata document still lists the record: a registry
\* opened afterwards resolves the same identifier to it, and validate and
\* apply on it fail.
RemoveSaveFailureDiverges ==
    \A identifier \in Identifiers, flt \in RemoveFaults :
        LET r == RemoveOutcome(identifier, flt)
            l == loadConfigs(r.fs, NoFault)
            i == GetConfig(l.configs, identifier)
        IN  (r.rec # NoConfig /\ Stat(fs, r.rec.file_path) /\ r.err = "SaveFailed") =>
                /\ r.rec \notin Records(r.configs)
                /\ ~Stat(r.fs, r.rec.file_path)
                /\ l.err = "nil"
                /\ r.rec \in Records(l.configs)
                /\ i # 0 /\ l.configs[i] = r.rec
                /\ ValidateConfig(l.configs, r.fs, identifier, NoFault) # "nil"
                /\ \A a \in ApplyNoFault :
                       ApplyConfig(l.configs, r.fs, identifier, a).err # "nil"

\* C29: a remove that resolves no record, or whose os.Remove fails for
\* another reason than the file being absent, returns NotFound or the
\* failure and changes nothing: not the collection, not the metadata
\* document, not a stored file.
RemoveFailsBeforeMutation ==
    /\ [](\A identifier \in Identifiers, flt \in RemoveFaults :
            LET r == RemoveOutcome(identifier, flt)
                i == GetConfig(configs["m1"], identifier)
            IN  /\ i = 0 => r.err = "NotFound"
                /\ (/\ i # 0
                    /\ Stat(fs, configs["m1"][i].file_path)
                    /\ flt.rm # NoFault) => r.err = "RemoveFailed"
                /\ r.err \in {"NotFound", "RemoveFailed"} =>
                       r.configs = configs["m1"] /\ r.fs = fs)
    /\ [][(ret'.op = "remove" /\ ret'.err \in {"NotFound", "RemoveFailed"}) =>
            UNCHANGED <<configs, fs, clock, dirs>>]_vars

\* C29 witness: a remove has failed at os.Remove; the record is in the
\* collection, its stored file is there and the document lists it.
RemoveRefusedKeepsRecord ==
    /\ ret.op = "remove" /\ ret.err = "RemoveFailed" /\ ret.had
    /\ \E c \in Records(configs["m1"]) : c.id = ret.id /\ Stat(fs, c.file_path)
    /\ OpensAs(fs, configs["m1"])

----------------------------------------------------------------------------
(* Package storage: AtomicWrite and SafeCopy.                               *)

\* filepath.Dir(filePath)
Dir(p) ==
    IF p = GetClaudeSettingsPath THEN claudeDir
    ELSE IF p = MetadataPath THEN configDir
    ELSE configsDir

\* storage.EnsureDir(dir)
EnsureDir(d, dir, flt) ==
    LET mk == MkdirAll(d, dir, flt) IN
    IF mk.err # "nil" THEN [err |-> "MkdirFailed", dirs |-> d]
    ELSE [err |-> "nil", dirs |-> mk.dirs]

\* tempFile := filePath + ".tmp"
TmpPath(p) == p \o <<".", "t">>

\* os.Rename(src, dst)
Rename(f, src, dst, flt) ==
    IF src \notin DOMAIN f THEN [err |-> "notexist", fs |-> f]
    ELSE IF flt.kind # "ok" THEN [err |-> "denied", fs |-> f]
    ELSE [err |-> "nil", fs |-> Put(Del(f, src), dst, f[src])]

\* storage.AtomicWrite(filePath, data); flt is [mk, w, mv, rm]
AtomicWrite(d, f, filePath, data, flt) ==
    LET mk == EnsureDir(d, Dir(filePath), flt.mk)
        w == WriteFile(f, TmpPath(filePath), data, flt.w)
        mv == Rename(w.fs, TmpPath(filePath), filePath, flt.mv)
    IN  IF mk.err # "nil" THEN [err |-> "MkdirFailed", fs |-> f, dirs |-> d]
        ELSE IF w.err # "nil" THEN [err |-> "WriteFailed", fs |-> w.fs, dirs |-> mk.dirs]
        ELSE IF mv.err # "nil"
             THEN [err |-> "RenameFailed",
                   fs |-> Remove(w.fs, TmpPath(filePath), flt.rm).fs, dirs |-> mk.dirs]
        ELSE [err |-> "nil", fs |-> mv.fs, dirs |-> mk.dirs]

\* storage.SafeCopy(src, dst); flt is [rd, mk, w, mv, rm]
SafeCopy(d, f, src, dst, flt) ==
    LET r == ReadFile(f, src, flt.rd)
        a == AtomicWrite(d, f, dst, r.data, flt)
    IN  IF ~Stat(f, src) THEN [err |-> "NoSource", fs |-> f, dirs |-> d]
        ELSE IF r.err # "nil" THEN [err |-> "ReadFailed", fs |-> f, dirs |-> d]
        ELSE a

\* the files the storage functions are called on, what is written, and the
\* faults of one call: at most one of the calls fails, and the clean-up
\* after a failed rename may fail too
StoragePaths == {MetadataPath, FilePath(Uuid(1))}
StorageContents == {EmptyObject, EmptyArray, MemberObject}
StorageFaults ==
    {f \in [rd : ReadFaults, mk : ReadFaults, w : WriteFaults, mv : ReadFaults,
            rm : ReadFaults] :
        /\ f.rd # NoFault => f.mk = NoFault /\ f.w = NoFault /\ f.mv = NoFault
        /\ f.mk # NoFault => f.w = NoFault /\ f.mv = NoFault
        /\ f.w # NoFault => f.mv = NoFault
        /\ f.rm # NoFault => f.mv # NoFault}
AtomicWriteFaults == {f \in StorageFaults : f.rd = NoFault}

AtomicWriteCall ==
    \E filePath \in StoragePaths, data \in StorageContents, flt \in AtomicWriteFaults :
        \E r \in {AtomicWrite(dirs, fs, filePath, data, flt)} :
            /\ fs' = r.fs
            /\ dirs' = r.dirs
            /\ ret' = Ret("AtomicWrite", r.err, NoId, "none", Stat(fs, filePath))
            /\ UNCHANGED <<configs, clock, writing, cmds>>

SafeCopyCall ==
    \E src \in StoragePaths, dst \in StoragePaths, flt \in StorageFaults :
        \E r \in {SafeCopy(dirs, fs, src, dst, flt)} :
            /\ src # dst
            /\ fs' = r.fs
            /\ dirs' = r.dirs
            /\ ret' = Ret("SafeCopy", r.err, NoId, "none", Stat(fs, dst))
            /\ UNCHANGED <<configs, clock, writing, cmds>>

EnsureDirCall ==
    \E dir \in StorageDirs, flt \in ReadFaults :
        \E r \in {EnsureDir(dirs, dir, flt)} :
            /\ dirs' = r.dirs
            /\ ret' = Ret("EnsureDir", r.err, NoId, "none", dir \in dirs)
            /\ UNCHANGED <<configs, fs, clock, writing, cmds>>

NextStorage ==
    \/ EnsureDirCall
    \/ AtomicWriteCall
    \/ SafeCopyCall

SpecStorage == Init /\ [][NextStorage]_vars

\* C23: a failed AtomicWrite on a path that had no temporary sibling leaves
\* no temporary sibling, and leaves the file at the path as it was: with its
\* content, or absent.
AtomicWriteCleansUpOnFailure ==
    \A filePath \in StoragePaths, data \in StorageContents,
       flt \in {f \in AtomicWriteFaults : f.rm = NoFault} :
        LET r == AtomicWrite(dirs, fs, filePath, data, flt) IN
        (r.err # "nil" /\ ~Stat(fs, TmpPath(filePath))) =>
            /\ ~Stat(r.fs, TmpPath(filePath))
            /\ Stat(r.fs, filePath) = Stat(fs, filePath)
            /\ Stat(fs, filePath) => r.fs[filePath] = fs[filePath]

----------------------------------------------------------------------------
(* Names as the command line hands them over: any bytes.                   *)

ByteNames == {Uuid(1), <<InvalidByte>>, <<ReplacementChar>>}

NextNames ==
    \/ NewManager("m1")
    \/ AddFrom("m1", AddNoFault, ByteNames, MaxAdds)
    \/ RemoveCall("m1", RemoveNoFault)

SpecNames == Init /\ [][NextNames]_vars

\* C24: in every reachable state no two records of a collection share a
\* name, an identity or a stored-file path, and for as long as a record
\* stays in the collection its identity keeps its name and its path.
UniqueAndImmutable ==
    /\ [](\A m \in Managers : \A i, j \in 1..Len(configs[m]) :
            i # j => /\ configs[m][i].name # configs[m][j].name
                     /\ configs[m][i].id # configs[m][j].id
                     /\ configs[m][i].file_path # configs[m][j].file_path)
    /\ [][\A m \in Managers : \A c \in Records(configs[m]), k \in Records(configs'[m]) :
            c.id = k.id => c.name = k.name /\ c.file_path = k.file_path]_vars

----------------------------------------------------------------------------
(* The registry left to itself: add, apply, validate and remove with no    *)
(* failing I/O call in them, and nobody else touching the files.           *)

QuietNames == Names \cup {<<InvalidByte>>}

NextQuiet ==
    \/ NewManager("m1")
    \/ AddFrom("m1", AddNoFault, QuietNames, MaxAdds)
    \/ Apply("m1", ApplyNoFault)
    \/ Validate("m1")
    \/ ValidateAll("m1")
    \/ RemoveCall("m1", RemoveNoFault)

SpecQuiet == Init /\ [][NextQuiet]_vars

\* the files of the stored-content directory
StoredFiles(f) == {p \in DOMAIN f : Len(p) >= 2 /\ p[1] = "c" /\ p[2] = "/"}

\* C30: the metadata document loads, every record it lists has a stored
\* file that holds a valid JSON object, and every file of the stored-content
\* directory is the stored file of exactly one listed record.
MetadataMatchesStoredFiles ==
    LET l == loadConfigs(fs, NoFault)
        owners(p) == {i \in 1..Len(l.configs) : l.configs[i].file_path = p}
    IN  /\ l.err = "nil"
        /\ \A c \in Records(l.configs) :
               /\ Stat(fs, c.file_path)
               /\ fs[c.file_path] \in {EmptyObject, MemberObject}
               /\ ValidateClaudeSettings(fs[c.file_path]) = "nil"
        /\ \A p \in StoredFiles(fs) : Cardinality(owners(p)) = 1

\* C30 witness: two records were added and one of them has been removed;
\* the document lists the other one, whose file is the only stored file.
OneOfTwoLeftConsistent ==
    /\ ret.op = "remove" /\ ret.err = "nil" /\ ret.had /\ clock = 2
    /\ Len(configs["m1"]) = 1
    /\ OpensAs(fs, configs["m1"])
    /\ StoredFiles(fs) = {configs["m1"][1].file_path}

----------------------------------------------------------------------------
(* The frame of apply, under SpecApply.                                    *)

\* the files of the registry in f: the metadata document and the stored
\* files, everything but settings.json and its backup
RegistryFiles(f) == [p \in DOMAIN f \ {GetClaudeSettingsPath, BackupPath} |-> f[p]]

\* C31: an apply, whether it succeeds or fails, changes no file but
\* settings.json and the backup, and leaves the collection as it is: the
\* metadata document and every stored file are what they were, so nothing
\* in the registry tells which record was applied.
ApplyTouchesOnlyTargetAndBackup ==
    /\ [](\A identifier \in Identifiers, flt \in ApplyFaults :
            RegistryFiles(ApplyConfig(configs["m1"], fs, identifier, flt).fs)
                = RegistryFiles(fs))
    /\ [][ret'.op = "apply" =>
            /\ configs' = configs
            /\ RegistryFiles(fs') = RegistryFiles(fs)
            /\ UNCHANGED <<clock, dirs>>]_vars

\* C31 witness: an apply has succeeded over an existing settings.json; the
\* applied record is in the collection, the document lists it and its stored
\* file holds what settings.json now holds.
AppliedRecordStillStored ==
    /\ ret.op = "apply" /\ ret.err = "nil" /\ ret.had
    /\ OpensAs(fs, configs["m1"])
    /\ \E c \in Records(configs["m1"]) :
           /\ c.id = ret.id
           /\ Holds(fs, c.file_path, fs[GetClaudeSettingsPath])
    /\ Stat(fs, BackupPath)

\* ---------------------------------------------------------------------------
\* The validate command
\* ---------------------------------------------------------------------------

\* what the command prints for a record it found valid: no message
NoFailure == [id |-> NoId, name |-> <<>>, err |-> "nil"]

\* validateAllConfigs, "Show results": the line printed for cfg. The inner
\* loop over errors compares "config '<cfg.Name>'" with itself, so its first
\* iteration always sets hasError and takes that error's message: a record
\* whose own comparison is made against each error's record is
\* reportLineOwn, what the loop does is reportLine
reportLineOwn(cfg, errors) ==
    LET own == {k \in 1..Len(errors) : errors[k].id = cfg.id} IN
    IF own # {}
    THEN [name |-> cfg.name, valid |-> FALSE,
          msg |-> errors[CHOOSE k \in own : \A j \in own : k <= j]]
    ELSE [name |-> cfg.name, valid |-> TRUE, msg |-> NoFailure]
reportLine(cfg, errors) ==
    IF Len(errors) > 0
    THEN [name |-> cfg.name, valid |-> FALSE, msg |-> errors[1]]
    ELSE [name |-> cfg.name, valid |-> TRUE, msg |-> NoFailure]

\* the command's outcome: err, what it returns; report, the lines of "Show
\* results"; valid, invalid and total, the numbers of the summary
Validated(e, nm, report, invalid) ==
    [err |-> e, open |-> nm.open, configs |-> nm.configs, dirs |-> nm.dirs,
     report |-> report, valid |-> Len(report) - invalid, invalid |-> invalid,
     total |-> Len(report)]

\* validateAllConfigs(manager, verbose)
validateAllConfigs(nm, f) ==
    LET errors == ValidateAllConfigs(nm.configs, f) IN
    IF Len(nm.configs) = 0 THEN Validated("nil", nm, <<>>, 0)
    ELSE Validated(IF Len(errors) > 0 THEN "ValidationFailed" ELSE "nil", nm,
                   [i \in 1..Len(nm.configs) |-> reportLine(nm.configs[i], errors)],
                   Len(errors))

\* validateSingleConfig(manager, identifier, verbose)
validateSingleConfig(nm, f, identifier) ==
    LET i == GetConfig(nm.configs, identifier) IN
    IF i = 0 THEN Validated("NotFound", nm, <<>>, 0)
    ELSE IF ValidateConfig(nm.configs, f, identifier, NoFault) # "nil"
         THEN Validated("ValidationFailed", nm, <<>>, 0)
    ELSE Validated("nil", nm, <<>>, 0)

\* runValidate after config.NewManager() has returned nm: args holds at most
\* one identifier (cobra.MaximumNArgs(1)), all is the --all flag
runValidateWith(nm, f, args, all) ==
    IF ~nm.open THEN Validated(nm.err, nm, <<>>, 0)
    ELSE IF Len(args) = 0 \/ all THEN validateAllConfigs(nm, f)
    ELSE validateSingleConfig(nm, f, args[1])

\* runValidate
runValidate(d, f, args, all, flt) ==
    runValidateWith(NewManagerFrom(d, f, flt), f, args, all)

\* the arguments of the command
ValidateArgs == {<<>>} \cup {<<identifier>> : identifier \in Identifiers}

\* claude-switch validate [config-name-or-id] [--all]
RunValidate(p) ==
    \E args \in ValidateArgs, all \in BOOLEAN, open \in OpenNoFault :
        \E nm \in {NewManagerFrom(dirs, fs, open)} :
        \E r \in {runValidateWith(nm, fs, args, all)} :
            /\ dirs' = r.dirs
            /\ ret' = Ret(IF Len(args) = 0 \/ all THEN "runValidateAll" ELSE "runValidate",
                          r.err, NoId, "none", FALSE)
            /\ UNCHANGED <<configs, fs, clock, writing, cmds>>

\* The validate command over collections whose stored files a user edits by
\* hand or deletes, with no I/O call failing.
NextValidateCmd ==
    \/ NewManager("m1")
    \/ Add("m1", AddNoFault)
    \/ RemoveCall("m1", RemoveNoFault)
    \/ ExternalWriteFrom(BrokenContents)
    \/ ExternalDelete
    \/ RunValidate("p1")

SpecValidateCmd == Init /\ [][NextValidateCmd]_vars

\* C32: the validate command run over all records reports each record as
\* invalid, with its own error, exactly when ValidateAllConfigs returned a
\* failure for that record, reports each other record as valid, and fails
\* exactly when at least one record is invalid.
ValidateAllSurfacedVerbatim ==
    \A all \in BOOLEAN, open \in OpenNoFault :
        LET r == runValidate(dirs, fs, <<>>, all, open)
            errors == ValidateAllConfigs(r.configs, fs)
        IN  r.open =>
                /\ Len(r.report) = Len(r.configs)
                /\ \A i \in 1..Len(r.configs) :
                       r.report[i] = reportLineOwn(r.configs[i], errors)
                /\ r.err # "nil" <=> Len(errors) > 0

\* C32, the half that holds: the command fails exactly when ValidateAllConfigs
\* returned a failure, and its summary counts them
ValidateAllExitStatus ==
    \A all \in BOOLEAN, open \in OpenNoFault :
        LET r == runValidate(dirs, fs, <<>>, all, open)
            errors == ValidateAllConfigs(r.configs, fs)
        IN  r.open =>
                /\ r.err # "nil" <=> Len(errors) > 0
                /\ r.invalid = Len(errors)
                /\ r.total = Len(r.configs)

\* the command has failed over two records of which one is valid
OneOfTwoInvalidValidated ==
    /\ ret.op = "runValidateAll"
    /\ ret.err = "ValidationFailed"
    /\ Len(configs["m1"]) = 2
    /\ Len(ValidateAllConfigs(configs["m1"], fs)) = 1

====
